---- MODULE Spec2Model ----
(***************************************************************************)
(* A model of scripts/otbr_manager.py: the driver loop of main (advertise- *)
(* ment reconciler, route reconciler, association refresh), the signal     *)
(* handler, and the Discovery Fixer's announcement observer, which runs in *)
(* the mDNS library's thread while the driver loop runs in the main        *)
(* thread.  Text is modelled as sequences of one-character strings, bytes  *)
(* as sequences of numbers 0..255.                                         *)
(***************************************************************************)
EXTENDS Integers, Sequences, FiniteSets, TLC

(***************************************************************************)
(* Bounds of the model.                                                    *)
(***************************************************************************)
MaxCycles == 2
MaxEvents == 2

(***************************************************************************)
(* Python values.                                                          *)
(***************************************************************************)
\* Python's None; every other value of a variable that may hold None is a
\* record with other fields.
None == [none |-> TRUE]

\* The empty dict.
EmptyDict == <<>>

\* d[k] = v on a dict d.
DictSet(d, k, v) == (k :> v) @@ d

\* d.get(k, default)
DictGet(d, k, default) == IF k \in DOMAIN d THEN d[k] ELSE default

(***************************************************************************)
(* Text helpers (str methods the scripts use).                             *)
(***************************************************************************)
RECURSIVE Repeat(_, _)
Repeat(c, n) == IF n = 0 THEN <<>> ELSE <<c>> \o Repeat(c, n - 1)

\* s.startswith(p)
StartsWith(s, p) == Len(s) >= Len(p) /\ SubSeq(s, 1, Len(p)) = p

\* s.endswith(p)
EndsWith(s, p) == Len(s) >= Len(p) /\ SubSeq(s, Len(s) - Len(p) + 1, Len(s)) = p

\* p in s
Contains(s, p) == \E i \in 1..(Len(s) - Len(p) + 1) : SubSeq(s, i, i + Len(p) - 1) = p

\* c.lower() of one character (the upper-case letters the inputs use).
LowerChar(c) ==
    CASE c = "A" -> "a" [] c = "B" -> "b" [] c = "C" -> "c"
      [] c = "D" -> "d" [] c = "E" -> "e" [] c = "F" -> "f"
      [] c = "L" -> "l" [] c = "O" -> "o"
      [] OTHER -> c

\* s.lower()
Lower(s) == [i \in 1..Len(s) |-> LowerChar(s[i])]

\* s.replace(p, ""): every non-overlapping occurrence, left to right.
RECURSIVE ReplaceAllEmpty(_, _)
ReplaceAllEmpty(s, p) ==
    IF Len(s) < Len(p) THEN s
    ELSE IF SubSeq(s, 1, Len(p)) = p
         THEN ReplaceAllEmpty(SubSeq(s, Len(p) + 1, Len(s)), p)
         ELSE <<Head(s)>> \o ReplaceAllEmpty(Tail(s), p)

DotLocalDot == <<".", "l", "o", "c", "a", "l", ".">>
ErrorMarker == <<"E", "r", "r", "o", "r">>

(***************************************************************************)
(* Hex text and bytes.                                                     *)
(***************************************************************************)
HexDigits == <<"0", "1", "2", "3", "4", "5", "6", "7",
               "8", "9", "a", "b", "c", "d", "e", "f">>

IsHexChar(c) == \E i \in 1..16 : HexDigits[i] = LowerChar(c)

HexVal(c) == (CHOOSE i \in 1..16 : HexDigits[i] = LowerChar(c)) - 1

\* bytes.hex(): the text the mesh-control interface prints for a byte string.
RECURSIVE HexOf(_)
HexOf(bs) ==
    IF bs = <<>> THEN <<>>
    ELSE <<HexDigits[(Head(bs) \div 16) + 1], HexDigits[(Head(bs) % 16) + 1]>>
         \o HexOf(Tail(bs))

\* bytes.fromhex(s): [ok, bytes]; ok is FALSE where Python raises ValueError
\* (a character that is no hex digit, or an odd digit left over).  Blanks
\* between two bytes are skipped.
RECURSIVE FromHexAt(_, _)
FromHexAt(s, i) ==
    IF i > Len(s) THEN [ok |-> TRUE, bytes |-> <<>>]
    ELSE IF s[i] = " " THEN FromHexAt(s, i + 1)
    ELSE IF i + 1 > Len(s) \/ ~IsHexChar(s[i]) \/ ~IsHexChar(s[i + 1])
         THEN [ok |-> FALSE, bytes |-> <<>>]
    ELSE LET rest == FromHexAt(s, i + 2)
         IN  IF rest.ok
             THEN [ok |-> TRUE,
                   bytes |-> <<16 * HexVal(s[i]) + HexVal(s[i + 1])>> \o rest.bytes]
             ELSE [ok |-> FALSE, bytes |-> <<>>]

FromHex(s) == FromHexAt(s, 1)

\* b.decode('utf-8') succeeds: every lead byte is followed by the number of
\* continuation bytes (0x80..0xBF) it announces.
RECURSIVE Utf8Valid(_)
Utf8Valid(bs) ==
    IF bs = <<>> THEN TRUE
    ELSE LET b == Head(bs)
             n == IF b < 128 THEN 0
                  ELSE IF b >= 194 /\ b <= 223 THEN 1
                  ELSE IF b >= 224 /\ b <= 239 THEN 2
                  ELSE IF b >= 240 /\ b <= 244 THEN 3
                  ELSE 4
         IN  /\ n < 4
             /\ Len(bs) >= n + 1
             /\ \A k \in 2..(n + 1) : bs[k] >= 128 /\ bs[k] <= 191
             /\ Utf8Valid(SubSeq(bs, n + 2, Len(bs)))

(***************************************************************************)
(* run_command: the output of a shell command, "" when it fails.           *)
(***************************************************************************)
\* out is the command's standard output, already stripped; failed says the
\* command exited non-zero or could not be run.
run_command(out, failed) == IF failed THEN <<>> ELSE out

(***************************************************************************)
(* parse_tlv                                                               *)
(***************************************************************************)
\* The loop without the test of line 102: the slice of line 103 then ends
\* where the buffer ends.
RECURSIVE ParseTlvLoop_unchecked_length(_, _, _)
ParseTlvLoop_unchecked_length(data, i, tlvs) ==
    IF ~(i < Len(data)) THEN tlvs
    ELSE IF i + 2 > Len(data) THEN tlvs
    ELSE LET tag    == data[i + 1]
             length == data[i + 2]
             j      == i + 2
             end    == IF j + length > Len(data) THEN Len(data) ELSE j + length
         IN  ParseTlvLoop_unchecked_length(data, j + length,
                                           DictSet(tlvs, tag, SubSeq(data, j + 1, end)))

\* The while loop of parse_tlv; i is the 0-based index of the code.
RECURSIVE ParseTlvLoop(_, _, _)
ParseTlvLoop(data, i, tlvs) ==
    IF ~(i < Len(data)) THEN tlvs
    ELSE IF i + 2 > Len(data) THEN tlvs
    ELSE LET tag    == data[i + 1]
             length == data[i + 2]
             j      == i + 2
         IN  IF j + length > Len(data) THEN tlvs
             ELSE ParseTlvLoop(data, j + length,
                               DictSet(tlvs, tag, SubSeq(data, j + 1, j + length)))

parse_tlv(hex_str) ==
    LET data == FromHex(hex_str)
    IN  IF ~data.ok THEN EmptyDict ELSE ParseTlvLoop(data.bytes, 0, EmptyDict)

\* The copy in mdns_publisher.py (lines 62-80).
RECURSIVE PublisherParseTlvLoop(_, _, _)
PublisherParseTlvLoop(data, i, tlvs) ==
    IF ~(i < Len(data)) THEN tlvs
    ELSE IF i + 2 > Len(data) THEN tlvs
    ELSE LET tag    == data[i + 1]
             length == data[i + 2]
             j      == i + 2
         IN  IF j + length > Len(data) THEN tlvs
             ELSE PublisherParseTlvLoop(data, j + length,
                                        DictSet(tlvs, tag, SubSeq(data, j + 1, j + length)))

publisher_parse_tlv(hex_str) ==
    LET data == FromHex(hex_str)
    IN  IF ~data.ok THEN EmptyDict ELSE PublisherParseTlvLoop(data.bytes, 0, EmptyDict)

(***************************************************************************)
(* Module configuration (otbr_manager.py lines 30-41).                     *)
(***************************************************************************)
mDNS_SERVICE_TYPE == <<"_", "m", "e", "s", "h", "c", "o", "p", ".", "_", "u", "d", "p", ".", "l", "o", "c", "a", "l", ".">>

\* os.getenv("OTBR_HOSTNAME", "otbr-server") with the variable unset.
DefaultHostName == <<"o", "t", "b", "r", "-", "s", "e", "r", "v", "e", "r">>

\* Lines 33-38: the two suffix tests applied to the configured host name.
NormalizeHostName(h) ==
    LET h1 == IF ~EndsWith(h, <<".", "l", "o", "c", "a", "l">>)
              THEN h \o <<".", "l", "o", "c", "a", "l">> ELSE h
    IN  IF ~EndsWith(h1, <<".">>) THEN h1 \o <<".">> ELSE h1

mDNS_SERVER_NAME == NormalizeHostName(DefaultHostName)

\* The names the module binds at import time and their values.  A name that
\* is not bound here is bound nowhere: the script imports no module of the
\* repository and nothing assigns a global at run time.
ModuleGlobals ==
    [mDNS_SERVICE_TYPE |-> mDNS_SERVICE_TYPE,
     mDNS_SERVER_NAME  |-> mDNS_SERVER_NAME,
     POLL_INTERVAL     |-> 30]

\* Evaluating a global name: its value, or NameError.
LoadGlobal(name) ==
    IF name \in DOMAIN ModuleGlobals
    THEN [ok |-> TRUE, val |-> ModuleGlobals[name]]
    ELSE [ok |-> FALSE, val |-> None]

\* os.getenv("OTBR_VENDOR", "OpenThread"), os.getenv("OTBR_MODEL", "SLZB-OTBR")
VendorName == "OpenThread"
ModelName == "SLZB-OTBR"

(***************************************************************************)
(* get_mdns_properties                                                     *)
(***************************************************************************)
\* get_mdns_properties decoding the network name with errors="ignore".
get_mdns_properties_lenient_decode(dataset_hex, extaddr, baid) ==
    IF dataset_hex = <<>> \/ Contains(dataset_hex, ErrorMarker)
       \/ extaddr = <<>> \/ baid = <<>>
    THEN None
    ELSE LET tlvs == parse_tlv(dataset_hex)
         IN  IF 3 \notin DOMAIN tlvs \/ 2 \notin DOMAIN tlvs THEN None
             ELSE LET xa  == FromHex(extaddr)
                      bid == FromHex(baid)
                  IN  IF ~xa.ok \/ ~bid.ok THEN None
                      ELSE [nn |-> tlvs[3],
                            xp |-> tlvs[2],
                            tv |-> "1.4.0",
                            xa |-> xa.bytes,
                            id |-> bid.bytes,
                            sb |-> FromHex(<<"0", "0", "0", "0", "0", "0", "3", "0">>).bytes,
                            vn |-> VendorName,
                            mn |-> ModelName]

\* The three arguments are what run_command returned for the three queries.
get_mdns_properties(dataset_hex, extaddr, baid) ==
    IF dataset_hex = <<>> \/ Contains(dataset_hex, ErrorMarker)
       \/ extaddr = <<>> \/ baid = <<>>
    THEN None
    ELSE LET tlvs == parse_tlv(dataset_hex)
         IN  IF 3 \notin DOMAIN tlvs \/ 2 \notin DOMAIN tlvs THEN None
             ELSE LET xa  == FromHex(extaddr)
                      bid == FromHex(baid)
                  IN  IF ~Utf8Valid(tlvs[3]) \/ ~xa.ok \/ ~bid.ok THEN None
                      ELSE [nn |-> tlvs[3],
                            xp |-> tlvs[2],
                            tv |-> "1.4.0",
                            xa |-> xa.bytes,
                            id |-> bid.bytes,
                            sb |-> FromHex(<<"0", "0", "0", "0", "0", "0", "3", "0">>).bytes,
                            vn |-> VendorName,
                            mn |-> ModelName]

(***************************************************************************)
(* What the mesh-control interface can answer to the three dataset queries.*)
(***************************************************************************)
NameMyMesh == <<77, 121, 77, 101, 115, 104>>
NameOther  == <<72, 111, 109, 101>>
ExtPanId   == <<170, 187, 204, 221, 238, 255, 0, 17>>
ExtAddr    == <<0, 17, 34, 51, 68, 85, 102, 119>>
BorderAgentId == <<0, 17, 34, 51, 68, 85, 102, 119,
                   136, 153, 170, 187, 204, 221, 238, 255>>

\* One TLV: tag, length, value.
Tlv(tag, val) == <<tag, Len(val)>> \o val

ChannelTlv == Tlv(0, <<0, 0, 15>>)

DatasetGood      == HexOf(ChannelTlv \o Tlv(2, ExtPanId) \o Tlv(3, NameMyMesh))
DatasetOtherName == HexOf(ChannelTlv \o Tlv(2, ExtPanId) \o Tlv(3, NameOther))
DatasetNoName    == HexOf(ChannelTlv \o Tlv(2, ExtPanId))
DatasetNoPanId   == HexOf(ChannelTlv \o Tlv(3, NameMyMesh))
DatasetBadUtf8   == HexOf(Tlv(2, ExtPanId) \o Tlv(3, <<77, 255, 254>>))
\* The name TLV cut short: its declared length overruns the buffer.
DatasetTruncated == SubSeq(DatasetGood, 1, Len(DatasetGood) - 4)
\* The interface's trailing "Done" joined to the hex line by tr -d '\r\n'.
DatasetWithDone  == DatasetGood \o <<"D", "o", "n", "e">>
ErrorOutput      == ErrorMarker \o <<" ", "1", "3", ":", " ">>
                    \o <<"I", "n", "v", "a", "l", "i", "d">>

ExtAddrHex == HexOf(ExtAddr)
BaidHex    == HexOf(BorderAgentId)

\* Triples (dataset_hex, extaddr, baid) as run_command returns them.
AvailableSamples ==
    { <<DatasetGood, ExtAddrHex, BaidHex>>,
      <<DatasetOtherName, Lower(ExtAddrHex), BaidHex>> }

UnavailableSamples ==
    { <<<<>>, ExtAddrHex, BaidHex>>,
      <<ErrorOutput, ExtAddrHex, BaidHex>>,
      <<DatasetGood, <<>>, BaidHex>>,
      <<DatasetGood, ExtAddrHex, <<>>>>,
      <<DatasetGood, ErrorOutput, BaidHex>>,
      <<DatasetGood, ExtAddrHex, ErrorOutput>>,
      <<DatasetNoName, ExtAddrHex, BaidHex>>,
      <<DatasetNoPanId, ExtAddrHex, BaidHex>>,
      <<DatasetBadUtf8, ExtAddrHex, BaidHex>>,
      <<DatasetTruncated, ExtAddrHex, BaidHex>>,
      <<DatasetWithDone, ExtAddrHex, BaidHex>>,
      <<<<>>, <<>>, <<>>>> }

DatasetSamples == AvailableSamples \cup UnavailableSamples

(***************************************************************************)
(* More text helpers: split and strip.                                     *)
(***************************************************************************)
\* s.split(c) for a one-character separator c.
RECURSIVE SplitOn(_, _)
SplitOn(s, c) ==
    IF \A i \in 1..Len(s) : s[i] # c THEN <<s>>
    ELSE LET i == CHOOSE k \in 1..Len(s) :
                      s[k] = c /\ \A m \in 1..(k - 1) : s[m] # c
         IN  <<SubSeq(s, 1, i - 1)>> \o SplitOn(SubSeq(s, i + 1, Len(s)), c)

\* s.split(c, 1)
SplitFirst(s, c) ==
    IF \A i \in 1..Len(s) : s[i] # c THEN <<s>>
    ELSE LET i == CHOOSE k \in 1..Len(s) :
                      s[k] = c /\ \A m \in 1..(k - 1) : s[m] # c
         IN  <<SubSeq(s, 1, i - 1), SubSeq(s, i + 1, Len(s))>>

\* s.split(): the non-empty runs between blanks.
SplitBlank(s) == SelectSeq(SplitOn(s, " "), LAMBDA t : t # <<>>)

\* s.strip()
RECURSIVE Strip(_)
Strip(s) ==
    IF s = <<>> THEN s
    ELSE IF Head(s) = " " THEN Strip(Tail(s))
    ELSE IF s[Len(s)] = " " THEN Strip(SubSeq(s, 1, Len(s) - 1))
    ELSE s

\* sep.join(parts)
RECURSIVE Join(_, _)
Join(parts, sep) ==
    IF parts = <<>> THEN <<>>
    ELSE IF Len(parts) = 1 THEN parts[1]
    ELSE parts[1] \o sep \o Join(Tail(parts), sep)

(***************************************************************************)
(* get_ipv6_addresses                                                      *)
(***************************************************************************)
\* s[a:b] of Python for 0 <= a <= b.
Slice(s, a, b) ==
    IF a >= Len(s) THEN <<>>
    ELSE SubSeq(s, a + 1, IF b > Len(s) THEN Len(s) ELSE b)

\* Line 75: the eight slices raw_hex[i:i+4] joined by ':'.
ColonGroups(raw_hex) ==
    Join([k \in 1..8 |-> Slice(raw_hex, 4 * (k - 1), 4 * k)], <<":">>)

\* Line 77 as written.
IsLinkLocal(ipv6) == StartsWith(Lower(ipv6), <<"f", "e", "8", "0">>)

\* Lines 70-78: the loop over the lines of /proc/net/if_inet6.
RECURSIVE CollectAddresses(_, _, _)
CollectAddresses(lines, interface, ips) ==
    IF lines = <<>> THEN ips
    ELSE LET parts == SplitBlank(Head(lines))
         IN  IF Len(parts) >= 6 /\ parts[6] = interface
                /\ ~IsLinkLocal(ColonGroups(parts[1]))
             THEN CollectAddresses(Tail(lines), interface,
                                   Append(ips, ColonGroups(parts[1])))
             ELSE CollectAddresses(Tail(lines), interface, ips)

\* get_ipv6_addresses(interface) for the lines of /proc/net/if_inet6;
\* readable is false when the file is missing or reading it raises.
get_ipv6_addresses(lines, readable, interface) ==
    IF readable THEN CollectAddresses(lines, interface, <<>>) ELSE <<>>

\* One row of /proc/net/if_inet6 for an address given by its first and its
\* last group (the six groups between them are zero): address, index,
\* prefix length, scope, flags, device.
Wpan0 == <<"w", "p", "a", "n", "0">>
Eth0  == <<"e", "t", "h", "0">>
InetRow(first_group, last_group, device) ==
    first_group \o Repeat("0", 24) \o last_group
    \o <<" ", "0", "5", " ", "4", "0", " ", "0", "0", " ", "8", "0", " ">> \o device

\* The addresses a host can have: on the mesh interface or on another one,
\* global, link-local in either letter case, at the end of fe80::/10, just
\* after it, and with fe80 in a later group.  The last one is a row cut
\* short before its device column.
BoundAddress(first_group, last_group, device) ==
    [first_group |-> first_group, last_group |-> last_group, device |-> device]

BoundAddresses ==
    { BoundAddress(<<"f", "d", "0", "1">>, <<"0", "0", "0", "1">>, Wpan0),
      BoundAddress(<<"f", "d", "0", "1">>, <<"0", "0", "0", "2">>, Eth0),
      BoundAddress(<<"f", "e", "8", "0">>, <<"0", "0", "0", "1">>, Wpan0),
      BoundAddress(<<"F", "E", "8", "0">>, <<"0", "0", "0", "3">>, Wpan0),
      BoundAddress(<<"f", "e", "b", "f">>, <<"0", "0", "0", "1">>, Wpan0),
      BoundAddress(<<"f", "e", "c", "0">>, <<"0", "0", "0", "1">>, Wpan0),
      BoundAddress(<<"2", "0", "0", "1">>, <<"f", "e", "8", "0">>, Wpan0),
      BoundAddress(<<"f", "d", "0", "1">>, <<"0", "0", "0", "4">>, <<>>) }

\* The number of rows of the file.
MaxInetRows == 2

\* The contents of the file.
InetTables == UNION {[1..n -> BoundAddresses] : n \in 0..MaxInetRows}

InetLines(table) ==
    [k \in 1..Len(table) |->
        InetRow(table[k].first_group, table[k].last_group, table[k].device)]

(***************************************************************************)
(* socket.inet_pton(AF_INET6, text): the address as its eight 16-bit       *)
(* groups, or a failure (the code skips a text that fails).                *)
(***************************************************************************)
GroupOk(g) == Len(g) >= 1 /\ Len(g) <= 4 /\ \A i \in 1..Len(g) : IsHexChar(g[i])

RECURSIVE GroupVal(_)
GroupVal(g) ==
    IF g = <<>> THEN 0 ELSE 16 * GroupVal(SubSeq(g, 1, Len(g) - 1)) + HexVal(g[Len(g)])

Groups(s) == IF s = <<>> THEN <<>> ELSE SplitOn(s, ":")

inet_pton(text) ==
    LET gaps == {i \in 1..(Len(text) - 1) : text[i] = ":" /\ text[i + 1] = ":"}
        bad  == [ok |-> FALSE, packed |-> <<>>]
        vals(gs) == [k \in 1..Len(gs) |-> GroupVal(gs[k])]
    IN  IF gaps = {}
        THEN LET gs == Groups(text)
             IN  IF Len(gs) = 8 /\ \A k \in 1..8 : GroupOk(gs[k])
                 THEN [ok |-> TRUE, packed |-> vals(gs)]
                 ELSE bad
        ELSE IF Cardinality(gaps) = 1
        THEN LET i  == CHOOSE k \in gaps : TRUE
                 lg == Groups(SubSeq(text, 1, i - 1))
                 rg == Groups(SubSeq(text, i + 2, Len(text)))
             IN  IF /\ \A k \in 1..Len(lg) : GroupOk(lg[k])
                    /\ \A k \in 1..Len(rg) : GroupOk(rg[k])
                    /\ Len(lg) + Len(rg) <= 7
                 THEN [ok |-> TRUE,
                       packed |-> vals(lg) \o Repeat(0, 8 - Len(lg) - Len(rg)) \o vals(rg)]
                 ELSE bad
        ELSE bad

\* The loops of lines 161-166 and 384-390: the texts that convert, in order.
RECURSIVE PackAll(_)
PackAll(ips) ==
    IF ips = <<>> THEN <<>>
    ELSE LET r == inet_pton(Head(ips))
         IN  (IF r.ok THEN <<r.packed>> ELSE <<>>) \o PackAll(Tail(ips))

\* set(addresses)
SeqToSet(q) == {q[i] : i \in 1..Len(q)}

(***************************************************************************)
(* get_thread_data: the association table from four mesh-control reports.  *)
(* A report is the list of its lines (output.splitlines()).                *)
(***************************************************************************)
Fe80 == <<"f", "e", "8", "0">>
ZeroX == <<"0", "x">>
Rloc16Title == <<"R", "L", "O", "C", "1", "6">>
MacHexLen == 16

\* Lines 275-277 and 290-293: create the list when the key is new, then
\* append; unless_present is the extra membership test of line 292.
AppendIp(rloc_ips, rloc, ip, unless_present) ==
    LET d1 == IF rloc \notin DOMAIN rloc_ips
              THEN DictSet(rloc_ips, rloc, <<>>) ELSE rloc_ips
    IN  IF unless_present /\ ip \in {d1[rloc][i] : i \in 1..Len(d1[rloc])}
        THEN d1
        ELSE DictSet(d1, rloc, Append(d1[rloc], ip))

\* Lines 268-277.
RECURSIVE ParseEidcache(_, _)
ParseEidcache(lines, rloc_ips) ==
    IF lines = <<>> THEN rloc_ips
    ELSE LET parts == SplitBlank(Head(lines))
             next  ==
                 IF Len(parts) >= 2
                 THEN LET ip   == parts[1]
                          rloc == ReplaceAllEmpty(parts[2], ZeroX)
                      IN  IF Contains(ip, <<":">>) /\ ~StartsWith(ip, Fe80)
                          THEN AppendIp(rloc_ips, rloc, ip, FALSE)
                          ELSE rloc_ips
                 ELSE rloc_ips
         IN  ParseEidcache(Tail(lines), next)

\* Lines 281-293.
RECURSIVE ParseChildip(_, _)
ParseChildip(lines, rloc_ips) ==
    IF lines = <<>> THEN rloc_ips
    ELSE LET line == Head(lines)
             next ==
                 IF ~Contains(line, <<":">>) THEN rloc_ips
                 ELSE LET parts == SplitFirst(line, ":")
                      IN  IF Len(parts) >= 2
                          THEN LET rloc == ReplaceAllEmpty(Strip(parts[1]), ZeroX)
                                   ip   == Strip(parts[2])
                               IN  IF Contains(ip, <<":">>) /\ ~StartsWith(ip, Fe80)
                                   THEN AppendIp(rloc_ips, rloc, ip, TRUE)
                                   ELSE rloc_ips
                          ELSE rloc_ips
         IN  ParseChildip(Tail(lines), next)

\* Lines 300-312 (min_parts = 15, mac_col = 14) and 316-328 (11 and 10);
\* the columns are the 0-based indices of the code.
RECURSIVE ParseMacTable(_, _, _, _)
ParseMacTable(lines, min_parts, mac_col, mac_rloc) ==
    IF lines = <<>> THEN mac_rloc
    ELSE LET line == Head(lines)
             next ==
                 IF ~Contains(line, <<"|">>) \/ Contains(line, Rloc16Title)
                 THEN mac_rloc
                 ELSE LET parts == SplitOn(line, "|")
                      IN  IF Len(parts) >= min_parts
                          THEN LET rval == ReplaceAllEmpty(Strip(parts[3]), ZeroX)
                                   mval == Lower(Strip(parts[mac_col + 1]))
                               IN  IF Len(mval) = MacHexLen
                                   THEN DictSet(mac_rloc, mval, rval)
                                   ELSE mac_rloc
                          ELSE mac_rloc
         IN  ParseMacTable(Tail(lines), min_parts, mac_col, next)

ChildTableMinParts == 15
ChildTableMacColumn == 14
NeighborTableMinParts == 11
NeighborTableMacColumn == 10

\* report: [eidcache, childip, child_table, neighbor_table], each the lines
\* run_command returned (none when the command failed).
get_thread_data(report) ==
    [rloc_ips |-> ParseChildip(report.childip,
                               ParseEidcache(report.eidcache, EmptyDict)),
     mac_rloc |-> ParseMacTable(report.neighbor_table,
                                NeighborTableMinParts, NeighborTableMacColumn,
                                ParseMacTable(report.child_table,
                                              ChildTableMinParts, ChildTableMacColumn,
                                              EmptyDict))]

(***************************************************************************)
(* What the mesh can report: devices, locators and addresses.              *)
(***************************************************************************)
Mac1 == <<"a", "a", "b", "b", "c", "c", "d", "d", "e", "e", "f", "f", "0", "0", "1", "1">>
Mac2 == <<"1", "1", "2", "2", "3", "3", "4", "4", "5", "5", "6", "6", "7", "7", "8", "8">>
Mac3 == <<"9", "9", "a", "a", "b", "b", "c", "c", "d", "d", "e", "e", "f", "f", "0", "0">>
Mac1Upper == <<"A", "A", "B", "B", "C", "C", "D", "D", "E", "E", "F", "F", "0", "0", "1", "1">>
RlocA == <<"8", "c", "0", "0">>
RlocB == <<"4", "4", "0", "0">>
Ip1 == <<"f", "d", "0", "1", ":", ":", "1">>
Ip2 == <<"f", "d", "0", "1", ":", ":", "2">>
Ip3 == <<"f", "d", "0", "1", ":", ":", "3">>
Ip1Long == <<"f", "d", "0", "1", ":", "0", ":", "0", ":", "0", ":", "0", ":", "0", ":", "0", ":", "1">>
IpLinkLocal == <<"f", "e", "8", "0", ":", ":", "1">>

\* One line of each report, as the mesh-control interface prints it.
EidLine(ip, rloc) == ip \o <<" ">> \o rloc \o <<" ", "c", "a", "c", "h", "e">>
ChildIpLine(rloc, ip) == rloc \o <<":", " ">> \o ip
TableLine(cells) == <<"|", " ">> \o Join(cells, <<" ", "|", " ">>) \o <<" ", "|">>
ChildTableLine(rloc, mac) ==
    TableLine(<<<<"1">>, ZeroX \o rloc>> \o Repeat(<<"0">>, 11) \o <<mac>>)
NeighborTableLine(rloc, mac) ==
    TableLine(<<<<"R">>, ZeroX \o rloc>> \o Repeat(<<"0">>, 7) \o <<mac, <<"4">>>>)
TableTitleLine == TableLine(<<<<"I", "D">>, Rloc16Title>>)
TableRuleLine == <<"+", "-", "-", "+">>
DoneLine == <<"D", "o", "n", "e">>

\* The device Mac1 is a child at locator A and reachable at Ip1.
MeshChildAtA ==
    [eidcache       |-> <<DoneLine>>,
     childip        |-> <<ChildIpLine(RlocA, Ip1), ChildIpLine(RlocA, IpLinkLocal), DoneLine>>,
     child_table    |-> <<TableTitleLine, TableRuleLine,
                          ChildTableLine(RlocA, Mac1Upper), DoneLine>>,
     neighbor_table |-> <<TableTitleLine, TableRuleLine, DoneLine>>]

\* Mac1 has roamed to another router and is now at locator B with Ip2;
\* locator A has been given to the device Mac2, reachable at Ip3.
MeshRoamed ==
    [eidcache       |-> <<EidLine(Ip2, RlocB), DoneLine>>,
     childip        |-> <<ChildIpLine(RlocA, Ip3), DoneLine>>,
     child_table    |-> <<TableTitleLine, TableRuleLine,
                          ChildTableLine(RlocA, Mac2), DoneLine>>,
     neighbor_table |-> <<TableTitleLine, TableRuleLine,
                          NeighborTableLine(RlocB, Mac1), DoneLine>>]

\* Mac1 is still the child at locator A; its address is now Ip2.
MeshReaddressed ==
    [eidcache       |-> <<EidLine(Ip2, RlocA), DoneLine>>,
     childip        |-> <<ChildIpLine(RlocA, Ip2), DoneLine>>,
     child_table    |-> <<TableTitleLine, TableRuleLine,
                          ChildTableLine(RlocA, Mac1), DoneLine>>,
     neighbor_table |-> <<TableTitleLine, TableRuleLine, DoneLine>>]

\* Mac1 is a child at locator A; no address of it is known yet.
MeshNoAddress ==
    [eidcache       |-> <<DoneLine>>,
     childip        |-> <<DoneLine>>,
     child_table    |-> <<TableTitleLine, TableRuleLine,
                          ChildTableLine(RlocA, Mac1), DoneLine>>,
     neighbor_table |-> <<TableTitleLine, TableRuleLine, DoneLine>>]

MeshReports == {MeshChildAtA, MeshRoamed, MeshReaddressed, MeshNoAddress}

\* The four reports as run_command returns them: the lines of a command
\* that failed are missing.
Answered(report, failed) ==
    [c \in DOMAIN report |-> IF c \in failed THEN <<>> ELSE report[c]]

\* Which of the four commands can fail in one refresh.
ThreadCommandFailures == {{}, {"eidcache", "childip", "child_table", "neighbor_table"}}

(***************************************************************************)
(* The mDNS responder (the Zeroconf object), as the scripts use it.        *)
(***************************************************************************)
\* ServiceInfo(type, name, addresses=, port=, properties=, server=)
ServiceInfo(type, name, addresses, port, properties, server) ==
    [type |-> type, name |-> name, addresses |-> addresses, port |-> port,
     properties |-> properties, server |-> server]

\* A packed IPv4 address is 4 bytes; inet_pton(AF_INET6, ...) above packs an
\* IPv6 address as its 8 groups.
IsIPv4(packed) == Len(packed) = 4

\* info.addresses, the property the scripts read: the IPv4 addresses of the
\* record only, while the constructor's addresses= takes both families.
info_addresses(info) == SelectSeq(info.addresses, IsIPv4)

\* What register_service(info, cooperating_responders=coop) raises, "" when
\* it returns.  services is the responder's own registry (name -> info),
\* owned_elsewhere the instance names another responder answers for, and
\* io_error an error of the network or of the responder's event loop.
RegisterRaises(services, info, coop, owned_elsewhere, io_error) ==
    IF io_error THEN "OSError"
    ELSE IF ~coop /\ info.name \in owned_elsewhere THEN "NonUniqueNameException"
    ELSE IF info.name \in DOMAIN services THEN "ServiceNameAlreadyRegistered"
    ELSE ""

\* The registry after register_service(info, ...) that raised exc.
RegistryAfterRegister(services, info, exc) ==
    IF exc = "" THEN DictSet(services, info.name, info) ELSE services

\* The registry after unregister_service(info).
RegistryAfterUnregister(services, info) ==
    [n \in DOMAIN services \ {info.name} |-> services[n]]

\* One call on the responder, as the log of calls records it.
Call(op, by, info, coop, raised) ==
    [op |-> op, by |-> by, info |-> info, coop |-> coop, raised |-> raised]

(***************************************************************************)
(* update_mdns                                                             *)
(***************************************************************************)
\* Lines 178-186.
is_different(current_info, new_info) ==
    IF current_info = None THEN TRUE
    ELSE IF current_info.name # new_info.name THEN TRUE
    ELSE IF current_info.properties # new_info.properties THEN TRUE
    ELSE SeqToSet(info_addresses(current_info)) # SeqToSet(info_addresses(new_info))

\* update_mdns(zeroconf, current_info) for the properties props that
\* get_mdns_properties returned and the texts ip_addrs that
\* get_ipv6_addresses returned.  failing names the responder operation that
\* fails for a reason of the network ("" when none does).  The result says
\* what the call raised ("": it returned result), the calls it made on the
\* responder and the responder's registry after them.
update_mdns(services, current_info, props, ip_addrs, owned_elsewhere, failing) ==
    LET unreg_exc == IF failing = "unregister_service" THEN "OSError" ELSE ""
        unreg     == IF current_info # None
                     THEN <<Call("unregister_service", "update_mdns", current_info,
                                 FALSE, unreg_exc)>>
                     ELSE <<>>
        s1        == IF current_info # None /\ unreg_exc = ""
                     THEN RegistryAfterUnregister(services, current_info)
                     ELSE services
        unreg_raised == IF current_info # None THEN unreg_exc ELSE ""
    IN
    IF props = None
    THEN \* lines 151-155; line 154 has no handler
         [raised |-> unreg_raised, result |-> None, calls |-> unreg, services |-> s1]
    ELSE LET service_name    == props.nn \o <<".">> \o LoadGlobal("mDNS_SERVICE_TYPE").val
             addresses_bytes == PackAll(ip_addrs)
             port            == LoadGlobal("mDNS_PORT")
         IN  IF ~port.ok
             THEN \* line 172: evaluating the arguments of ServiceInfo(...)
                  [raised |-> "NameError", result |-> None, calls |-> <<>>,
                   services |-> services]
             ELSE LET new_info == ServiceInfo(LoadGlobal("mDNS_SERVICE_TYPE").val,
                                              service_name, addresses_bytes, port.val,
                                              props, LoadGlobal("mDNS_SERVER_NAME").val)
                  IN  IF ~is_different(current_info, new_info)
                      THEN [raised |-> "", result |-> current_info, calls |-> <<>>,
                            services |-> services]
                      ELSE IF unreg_raised # ""
                      THEN \* line 191 has no handler
                           [raised |-> unreg_raised, result |-> None, calls |-> unreg,
                            services |-> s1]
                      ELSE \* lines 193-198
                           LET exc == RegisterRaises(s1, new_info, FALSE, owned_elsewhere,
                                                     failing = "register_service")
                               reg == Call("register_service", "update_mdns",
                                           new_info, FALSE, exc)
                           IN  [raised   |-> IF exc \in {"", "NonUniqueNameException"}
                                             THEN "" ELSE exc,
                                result   |-> IF exc = "" THEN new_info ELSE current_info,
                                calls    |-> unreg \o <<reg>>,
                                services |-> RegistryAfterRegister(s1, new_info, exc)]

\* get_ipv6_addresses("wpan0") as update_mdns receives it: the global
\* addresses of the mesh interface.
InterfaceAddressTexts == {<<>>, <<Ip1Long>>}

\* The instance names another responder on the link can own.
ForeignOwnerships ==
    {{}, {NameMyMesh \o <<".">> \o mDNS_SERVICE_TYPE}}

\* The responder operation that fails for a reason of the network.
ResponderFailures == {"", "register_service", "unregister_service"}

(***************************************************************************)
(* cleanup (the signal handler, also called by main's exception handler).  *)
(***************************************************************************)
\* Lines 438-441: the calls made on the responder.
CleanupCalls(current_info) ==
    (IF current_info # None
     THEN <<Call("unregister_service", "cleanup", current_info, FALSE, "")>>
     ELSE <<>>)
    \o <<Call("close", "cleanup", None, FALSE, "")>>

\* The registry after them.
CleanupRegistry(services, current_info) ==
    IF current_info # None THEN RegistryAfterUnregister(services, current_info)
    ELSE services

(***************************************************************************)
(* sync_omr_routes                                                         *)
(***************************************************************************)
PrefixesTitle == <<"P", "r", "e", "f", "i", "x", "e", "s">>
RoutesTitle   == <<"R", "o", "u", "t", "e", "s">>
ServicesTitle == <<"S", "e", "r", "v", "i", "c", "e", "s">>
Slash64       == <<"/", "6", "4">>
DefaultRoute  == <<":", ":", "/", "0">>

\* The loop with the validation of line 237 reduced to ':' in prefix.
RECURSIVE SamplePrefixes_any_prefix(_, _, _)
SamplePrefixes_any_prefix(lines, in_prefixes_section, prefixes) ==
    IF lines = <<>> THEN prefixes
    ELSE LET line == Strip(Head(lines))
             rest == Tail(lines)
         IN  IF StartsWith(line, PrefixesTitle)
             THEN SamplePrefixes_any_prefix(rest, TRUE, prefixes)
             ELSE IF StartsWith(line, RoutesTitle) \/ StartsWith(line, ServicesTitle)
             THEN SamplePrefixes_any_prefix(rest, FALSE, prefixes)
             ELSE IF in_prefixes_section /\ line # <<>>
             THEN LET parts == SplitBlank(line)
                  IN  IF Len(parts) > 0 /\ Contains(parts[1], <<":">>)
                      THEN SamplePrefixes_any_prefix(rest, in_prefixes_section,
                                                     prefixes \cup {parts[1]})
                      ELSE SamplePrefixes_any_prefix(rest, in_prefixes_section, prefixes)
             ELSE SamplePrefixes_any_prefix(rest, in_prefixes_section, prefixes)

\* Lines 223-238: the loop over the lines of 'netdata show'.
RECURSIVE SamplePrefixes(_, _, _)
SamplePrefixes(lines, in_prefixes_section, prefixes) ==
    IF lines = <<>> THEN prefixes
    ELSE LET line == Strip(Head(lines))
             rest == Tail(lines)
         IN  IF StartsWith(line, PrefixesTitle)
             THEN SamplePrefixes(rest, TRUE, prefixes)
             ELSE IF StartsWith(line, RoutesTitle) \/ StartsWith(line, ServicesTitle)
             THEN SamplePrefixes(rest, FALSE, prefixes)
             ELSE IF in_prefixes_section /\ line # <<>>
             THEN LET parts == SplitBlank(line)
                  IN  IF Len(parts) > 0
                         /\ Contains(parts[1], <<":">>)
                         /\ Contains(parts[1], Slash64)
                         /\ parts[1] # DefaultRoute
                      THEN SamplePrefixes(rest, in_prefixes_section,
                                          prefixes \cup {parts[1]})
                      ELSE SamplePrefixes(rest, in_prefixes_section, prefixes)
             ELSE SamplePrefixes(rest, in_prefixes_section, prefixes)

\* Lines 243-247: the first token of every row of 'ip -6 route show'.
CurrentRoutes(lines) ==
    {SplitBlank(lines[i])[1] : i \in {k \in 1..Len(lines) : SplitBlank(lines[k]) # <<>>}}

\* One 'ip -6 route ...' command.
RouteCommand(op, prefix) == [op |-> op, prefix |-> prefix]

\* Lines 250-254: one 'route add ... || route replace ...' command for each
\* prefix of the set, in the order the set is iterated.
RECURSIVE AddOrReplaceEach(_)
AddOrReplaceEach(prefixes) ==
    IF prefixes = {} THEN <<>>
    ELSE LET p == CHOOSE q \in prefixes : TRUE
         IN  <<RouteCommand("add_or_replace", p)>> \o AddOrReplaceEach(prefixes \ {p})

\* One 'route del' command for each prefix of the set.
RECURSIVE DeleteEach(_)
DeleteEach(prefixes) ==
    IF prefixes = {} THEN <<>>
    ELSE LET p == CHOOSE q \in prefixes : TRUE
         IN  <<RouteCommand("del", p)>> \o DeleteEach(prefixes \ {p})

\* sync_omr_routes that also removes the routes the report does not name.
sync_omr_routes_pruning(netdata, route_rows) ==
    IF netdata = <<>> THEN <<>>
    ELSE AddOrReplaceEach(SamplePrefixes(netdata, FALSE, {}) \ CurrentRoutes(route_rows))
         \o DeleteEach(CurrentRoutes(route_rows) \ SamplePrefixes(netdata, FALSE, {}))

\* sync_omr_routes that does not look at the kernel's routes.
sync_omr_routes_unconditional(netdata, route_rows) ==
    IF netdata = <<>> THEN <<>>
    ELSE AddOrReplaceEach(SamplePrefixes(netdata, FALSE, {}))

\* The commands sync_omr_routes runs, in order.  netdata is the report's
\* lines (none when the command failed or printed nothing), route_rows the
\* rows of the kernel's answer.
sync_omr_routes(netdata, route_rows) ==
    IF netdata = <<>> THEN <<>>
    ELSE AddOrReplaceEach(SamplePrefixes(netdata, FALSE, {}) \ CurrentRoutes(route_rows))

\* The kernel's routes of the mesh interface, pairs of prefix and metric,
\* after a sequence of commands: 'add p metric 1 || replace p metric 1' ends
\* with a route for p of metric 1, 'del p' with none for p.
RECURSIVE ApplyRouteCommands(_, _)
ApplyRouteCommands(routes, cmds) ==
    IF cmds = <<>> THEN routes
    ELSE LET c == Head(cmds)
         IN  ApplyRouteCommands(
                 IF c.op = "add_or_replace" THEN routes \cup {<<c.prefix, 1>>}
                 ELSE {r \in routes : r[1] # c.prefix},
                 Tail(cmds))

PrefixP1 == <<"f", "d", "0", "1", ":", "1", ":", ":", "/", "6", "4">>
PrefixP2 == <<"f", "d", "0", "1", ":", "2", ":", ":", "/", "6", "4">>
PrefixStale == <<"f", "d", "9", "9", ":", ":", "/", "6", "4">>

NetdataLine(prefix) == prefix \o <<" ", "p", "a", "r", "o", "s">>
RouteRow(prefix) == prefix \o <<" ", "d", "e", "v", " ", "w", "p", "a", "n", "0">>

NetdataOne ==
    <<PrefixesTitle \o <<":">>, NetdataLine(PrefixP1),
      RoutesTitle \o <<":">>, NetdataLine(PrefixStale), NetdataLine(DefaultRoute),
      ServicesTitle \o <<":">>, DoneLine>>
NetdataTwo ==
    <<PrefixesTitle \o <<":">>, NetdataLine(PrefixP1), NetdataLine(PrefixP2),
      NetdataLine(DefaultRoute), RoutesTitle \o <<":">>, ServicesTitle \o <<":">>, DoneLine>>

NetdataReports == {NetdataOne, NetdataTwo}

\* The kernel's routes of the mesh interface when the manager starts.
InitialKernelRoutes == {{}, {<<PrefixP1, 1>>, <<PrefixStale, 256>>}}

\* The rows 'ip -6 route show dev wpan0' prints for a set of routes.
RECURSIVE RouteRows(_)
RouteRows(routes) ==
    IF routes = {} THEN <<>>
    ELSE LET p == CHOOSE q \in routes : TRUE
         IN  <<RouteRow(p[1])>> \o RouteRows(routes \ {p})

(***************************************************************************)
(* The Discovery Fixer: announcements and check_service.                   *)
(***************************************************************************)
\* target_mac = None; the code tests only its truth value.
NoMac == <<>>

\* Lines 365-370: the MAC address a host name stands for.
TargetMac(server) ==
    LET server_name == Lower(server)
    IN  IF EndsWith(server_name, DotLocalDot)
        THEN LET potential_mac == ReplaceAllEmpty(server_name, DotLocalDot)
             IN  IF Len(potential_mac) = MacHexLen THEN potential_mac ELSE NoMac
        ELSE NoMac

\* Line 374, the test that guards the two lookups.
MacIsKnown(target_mac, mac_rloc_seen) ==
    target_mac # NoMac /\ target_mac \in DOMAIN mac_rloc_seen

\* Line 376.
CandidateIps(rloc_ips_seen, rloc) == DictGet(rloc_ips_seen, rloc, <<>>)

\* Line 381, the test that guards the injection.
ShouldInject(info, candidate_ips) ==
    info_addresses(info) = <<>> /\ candidate_ips # <<>>

\* Lines 395-402.
CorrectedInfo(info, addr_bytes) ==
    ServiceInfo(info.type, info.name, addr_bytes, info.port, info.properties, info.server)

\* Line 407: the cooperating_responders argument.
CooperatingResponders == TRUE

\* Host names of foreign announcements.
HostMac1      == Mac1 \o DotLocalDot
HostMac1Upper == Mac1Upper \o <<".", "L", "O", "C", "A", "L", ".">>
HostMac3      == Mac3 \o DotLocalDot
HostShort     == <<"p", "l", "u", "g">> \o DotLocalDot
\* 'aabbccdd.local.eeff0011.local.': the label 'local' also inside the name.
HostInner     == SubSeq(Mac1, 1, 8) \o DotLocalDot \o SubSeq(Mac1, 9, 16) \o DotLocalDot
HostOtherDomain == Mac1 \o <<".", "l", "a", "n", ".">>

Packed1 == inet_pton(Ip1).packed
\* 192.0.2.1
PackedIPv4 == <<192, 0, 2, 1>>

\* What get_service_info can resolve an announced instance to.
Announcement(type, name, server, addresses) ==
    ServiceInfo(type, name, addresses, 5540, "txt", server)

Announcements ==
    { Announcement("_matter._tcp.local.", "dev1._matter._tcp.local.", HostMac1, <<>>),
      Announcement("_matter._tcp.local.", "dev1._matter._tcp.local.", HostMac1, <<Packed1>>),
      Announcement("_matterc._udp.local.", "dev1._matterc._udp.local.", HostMac1Upper, <<>>),
      Announcement("_matter._tcp.local.", "dev1._matter._tcp.local.", HostMac1, <<PackedIPv4>>),
      Announcement("_matter._tcp.local.", "dev3._matter._tcp.local.", HostMac3, <<>>),
      Announcement("_matter._tcp.local.", "plug._matter._tcp.local.", HostShort, <<>>),
      Announcement("_matter._tcp.local.", "devx._matter._tcp.local.", HostInner, <<>>),
      Announcement("_matter._tcp.local.", "devl._matter._tcp.local.", HostOtherDomain, <<>>) }

\* What one run of check_service did: the announcement it resolved, the
\* values it read and the calls it made on the responder.
CheckRecord(info, target_mac, both_read, rloc, candidate_ips, mac_gen, ips_gen, mac_rloc_now, rloc_ips_now, services_before, calls) ==
    [info |-> info, target_mac |-> target_mac, both_read |-> both_read,
     rloc |-> rloc, candidate_ips |-> candidate_ips,
     mac_gen |-> mac_gen, ips_gen |-> ips_gen,
     mac_rloc_now |-> mac_rloc_now, rloc_ips_now |-> rloc_ips_now,
     services_before |-> services_before, calls |-> calls]

(***************************************************************************)
(* State.                                                                  *)
(***************************************************************************)
VARIABLES
    pc,                 \* main thread: the statement of main it is at
    cycle,              \* number of passes of the while loop started
    current_mdns_info,  \* main's current_mdns_info (current_info in mdns_publisher)
    exit_cause,         \* "" while running; what ended the process
    avail_hist,         \* per pass: did get_mdns_properties return properties
    call_failed,        \* an external command has failed in this pass
    last_update,        \* the update_mdns call that ended in the last step
    kernel_routes,      \* the kernel's routes of the mesh interface
    last_sync,          \* the sync_omr_routes call that ended in the last step
    zc_services,        \* the responder's registry: instance name -> info
    zc_closed,          \* zeroconf.close() has been called
    main_calls,         \* the calls the main thread made on the responder
    rloc_ips,           \* fixer.rloc_ips
    mac_rloc,           \* fixer.mac_rloc
    known_services,     \* fixer.known_services
    pending_mac_rloc,   \* update_ips between its two attribute stores
    rloc_ips_gen,       \* which update_ips call stored fixer.rloc_ips
    mac_rloc_gen,       \* which update_ips call stored fixer.mac_rloc
    ob_pc,              \* observer thread: the statement of check_service
    ob,                 \* its local variables
    events,             \* browser events delivered so far
    last_check,         \* the check_service call that ended in the last step
    call,               \* a function of the scripts called on its own: the
                        \* function and its arguments
    returned            \* what that call returned

vars == <<pc, cycle, current_mdns_info, exit_cause, avail_hist, call_failed,
          last_update, kernel_routes, last_sync, zc_services, zc_closed,
          main_calls, rloc_ips, mac_rloc, known_services, pending_mac_rloc,
          rloc_ips_gen, mac_rloc_gen, ob_pc, ob, events, last_check,
          call, returned>>

\* main up to line 445: the responder is open, nothing is published, the
\* association table has been filled once (line 432) and the two browsers
\* are running.
InitWith(routes, reports) ==
    /\ pc = "update_mdns"
    /\ cycle = 0
    /\ current_mdns_info = None
    /\ exit_cause = ""
    /\ avail_hist = <<>>
    /\ call_failed = FALSE
    /\ last_update = None
    /\ kernel_routes \in routes
    /\ last_sync = None
    /\ zc_services = EmptyDict
    /\ zc_closed = FALSE
    /\ main_calls = <<>>
    /\ \E report \in reports :
         LET td == get_thread_data(report)
         IN  rloc_ips = td.rloc_ips /\ mac_rloc = td.mac_rloc
    /\ known_services = EmptyDict
    /\ pending_mac_rloc = None
    /\ rloc_ips_gen = 0
    /\ mac_rloc_gen = 0
    /\ ob_pc = "idle"
    /\ ob = None
    /\ events = 0
    /\ last_check = None
    /\ call = None
    /\ returned = None

Running == pc # "exited"

\* The records of the last step are dropped by the step that follows.
ForgetLastStep == last_update' = None /\ last_sync' = None /\ last_check' = None

(***************************************************************************)
(* The driver loop of main (lines 447-462).                                *)
(***************************************************************************)
\* Which of the three dataset queries can fail (run_command returns "").
QueryFailures == {{}, {"dataset"}, {"extaddr"}, {"baid"}}

\* Line 450: current_mdns_info = update_mdns(zeroconf, current_mdns_info).
\* An exception leaves the assignment undone and reaches main's handler.
UpdateMdnsOn(samples, failures, addresses, ownerships, responder_failures) ==
    /\ pc = "update_mdns"
    /\ cycle < MaxCycles
    /\ \E s \in samples, failed \in failures,
          ip_addrs \in addresses, owned \in ownerships,
          failing \in responder_failures :
         LET dataset_hex == run_command(s[1], "dataset" \in failed)
             extaddr     == run_command(s[2], "extaddr" \in failed)
             baid        == run_command(s[3], "baid" \in failed)
             props       == get_mdns_properties(dataset_hex, extaddr, baid)
             r           == update_mdns(zc_services, current_mdns_info, props,
                                        ip_addrs, owned, failing)
         IN  /\ last_update' = [dataset_hex |-> dataset_hex, extaddr |-> extaddr,
                                baid |-> baid, owned_elsewhere |-> owned,
                                failing |-> failing, ip_addrs |-> ip_addrs,
                                current_info |-> current_mdns_info,
                                services |-> zc_services,
                                calls |-> r.calls, raised |-> r.raised]
             /\ avail_hist' = Append(avail_hist, props # None)
             /\ call_failed' = (failed # {})
             /\ zc_services' = r.services
             /\ main_calls' = main_calls \o r.calls
             /\ IF r.raised = ""
                THEN /\ current_mdns_info' = r.result
                     /\ pc' = "sync_omr_routes"
                     /\ exit_cause' = exit_cause
                ELSE /\ current_mdns_info' = current_mdns_info
                     /\ pc' = "except"
                     /\ exit_cause' = r.raised
    /\ cycle' = cycle + 1
    /\ last_sync' = None
    /\ last_check' = None
    /\ UNCHANGED <<zc_closed, known_services, kernel_routes>>
    /\ UNCHANGED <<rloc_ips, mac_rloc, pending_mac_rloc, rloc_ips_gen, mac_rloc_gen>>
    /\ UNCHANGED <<ob_pc, ob, events, call, returned>>

\* Which of the commands of sync_omr_routes can fail.
RouteFailures == {{}, {"netdata"}, {"route_show"}, {"route_add"}}

\* Line 453: sync_omr_routes().
SyncOmrRoutesOn(reports, failures) ==
    /\ pc = "sync_omr_routes"
    /\ \E report \in reports, failed \in failures :
         LET netdata == run_command(report, "netdata" \in failed)
             rows    == run_command(RouteRows(kernel_routes), "route_show" \in failed)
             cmds    == sync_omr_routes(netdata, rows)
         IN  /\ last_sync' = [netdata |-> netdata, route_rows |-> rows,
                              routes_before |-> kernel_routes, cmds |-> cmds]
             /\ kernel_routes' = IF "route_add" \in failed THEN kernel_routes
                                 ELSE ApplyRouteCommands(kernel_routes, cmds)
             /\ call_failed' = (call_failed \/ failed # {})
    /\ pc' = "update_ips"
    /\ last_update' = None
    /\ last_check' = None
    /\ UNCHANGED <<cycle, current_mdns_info, exit_cause, avail_hist>>
    /\ UNCHANGED <<zc_services, zc_closed, main_calls, known_services>>
    /\ UNCHANGED <<rloc_ips, mac_rloc, pending_mac_rloc, rloc_ips_gen, mac_rloc_gen>>
    /\ UNCHANGED <<ob_pc, ob, events, call, returned>>

\* Line 456, fixer.update_ips(), up to the first store of line 340:
\* get_thread_data() has returned and self.rloc_ips is assigned.
UpdateIpsStoreRlocIpsOn(reports, failures) ==
    /\ pc = "update_ips"
    /\ \E report \in reports, failed \in failures :
         LET td == get_thread_data(Answered(report, failed))
         IN  /\ rloc_ips' = td.rloc_ips
             /\ pending_mac_rloc' = [mac_rloc |-> td.mac_rloc]
             /\ call_failed' = (call_failed \/ failed # {})
    /\ rloc_ips_gen' = cycle
    /\ pc' = "store_mac_rloc"
    /\ ForgetLastStep
    /\ UNCHANGED <<mac_rloc, mac_rloc_gen, kernel_routes>>
    /\ UNCHANGED <<cycle, current_mdns_info, exit_cause, avail_hist>>
    /\ UNCHANGED <<zc_services, zc_closed, main_calls, known_services>>
    /\ UNCHANGED <<ob_pc, ob, events, call, returned>>

\* The second store of line 340: self.mac_rloc is assigned.  The rest of
\* update_ips (lines 341-347) only reads and logs.
UpdateIpsStoreMacRloc ==
    /\ pc = "store_mac_rloc"
    /\ mac_rloc' = pending_mac_rloc.mac_rloc
    /\ mac_rloc_gen' = cycle
    /\ pending_mac_rloc' = None
    /\ pc' = "sleep"
    /\ ForgetLastStep
    /\ UNCHANGED <<rloc_ips, rloc_ips_gen, kernel_routes>>
    /\ UNCHANGED <<cycle, current_mdns_info, exit_cause, avail_hist, call_failed>>
    /\ UNCHANGED <<zc_services, zc_closed, main_calls, known_services>>
    /\ UNCHANGED <<ob_pc, ob, events, call, returned>>

\* Line 458: time.sleep(POLL_INTERVAL), then the next pass.
Sleep ==
    /\ pc = "sleep"
    /\ pc' = "update_mdns"
    /\ call_failed' = FALSE
    /\ ForgetLastStep
    /\ UNCHANGED <<cycle, current_mdns_info, exit_cause, avail_hist, kernel_routes>>
    /\ UNCHANGED <<zc_services, zc_closed, main_calls, known_services>>
    /\ UNCHANGED <<rloc_ips, mac_rloc, pending_mac_rloc, rloc_ips_gen, mac_rloc_gen>>
    /\ UNCHANGED <<ob_pc, ob, events, call, returned>>

\* cleanup(sig, frame), lines 437-442; sys.exit(0) ends the process and its
\* daemon threads.
Cleanup(cause) ==
    /\ main_calls' = main_calls \o CleanupCalls(current_mdns_info)
    /\ zc_services' = CleanupRegistry(zc_services, current_mdns_info)
    /\ zc_closed' = TRUE
    /\ pc' = "exited"
    /\ exit_cause' = cause
    /\ UNCHANGED <<cycle, current_mdns_info, avail_hist, call_failed, last_update>>
    /\ UNCHANGED <<known_services, kernel_routes, last_sync>>
    /\ UNCHANGED <<rloc_ips, mac_rloc, pending_mac_rloc, rloc_ips_gen, mac_rloc_gen>>
    /\ UNCHANGED <<ob_pc, ob, events, last_check, call, returned>>

\* SIGTERM or SIGINT, delivered between any two statements of main.
Signal ==
    /\ Running
    /\ Cleanup("signal")

\* Lines 460-462: an exception reached main's handler.
HandleException ==
    /\ pc = "except"
    /\ Cleanup(exit_cause)

(***************************************************************************)
(* The observer: add_service / update_service / remove_service, called by  *)
(* the browsers in the mDNS library's thread.                              *)
(***************************************************************************)
ObserverFrame ==
    /\ UNCHANGED <<call, returned>>
    /\ UNCHANGED <<pc, cycle, current_mdns_info, exit_cause, avail_hist, call_failed>>
    /\ UNCHANGED <<kernel_routes, zc_closed, main_calls>>
    /\ UNCHANGED <<rloc_ips, mac_rloc, pending_mac_rloc, rloc_ips_gen, mac_rloc_gen>>
    /\ last_update' = None
    /\ last_sync' = None

\* Lines 349-350, 355-356 and 358-374: an add or update event; check_service
\* up to the test of line 374.
ServiceEvent ==
    /\ Running
    /\ ob_pc = "idle"
    /\ events < MaxEvents
    /\ events' = events + 1
    /\ \E found \in BOOLEAN, a \in Announcements :
         IF ~found
         THEN \* get_service_info returned None (line 361)
              /\ last_check' = CheckRecord(None, NoMac, FALSE, <<>>, <<>>, 0, 0,
                                           mac_rloc, rloc_ips, zc_services, <<>>)
              /\ UNCHANGED <<ob_pc, ob>>
         ELSE LET target_mac == TargetMac(a.server)
              IN  IF MacIsKnown(target_mac, mac_rloc)
                  THEN /\ ob_pc' = "lookup_rloc"
                       /\ ob' = [info |-> a, target_mac |-> target_mac,
                                 rloc |-> <<>>, mac_gen |-> 0]
                       /\ last_check' = None
                  ELSE \* candidate_ips stays [], line 381 is false
                       /\ last_check' = CheckRecord(a, target_mac, FALSE, <<>>, <<>>, 0, 0,
                                                    mac_rloc, rloc_ips, zc_services, <<>>)
                       /\ UNCHANGED <<ob_pc, ob>>
    /\ UNCHANGED <<zc_services, known_services>>
    /\ ObserverFrame

\* Lines 352-353: remove_service does nothing.
RemoveService ==
    /\ Running
    /\ ob_pc = "idle"
    /\ events < MaxEvents
    /\ events' = events + 1
    /\ last_check' = None
    /\ UNCHANGED <<ob_pc, ob, zc_services, known_services>>
    /\ ObserverFrame

\* Line 375: rloc = self.mac_rloc[target_mac].  A KeyError is caught by
\* line 412.
LookupRloc ==
    /\ Running
    /\ ob_pc = "lookup_rloc"
    /\ IF ob.target_mac \in DOMAIN mac_rloc
       THEN /\ ob' = [ob EXCEPT !.rloc = mac_rloc[ob.target_mac],
                                !.mac_gen = mac_rloc_gen]
            /\ ob_pc' = "lookup_ips"
            /\ last_check' = None
       ELSE /\ last_check' = CheckRecord(ob.info, ob.target_mac, FALSE, <<>>, <<>>,
                                         mac_rloc_gen, 0, mac_rloc, rloc_ips,
                                         zc_services, <<>>)
            /\ ob' = None
            /\ ob_pc' = "idle"
    /\ UNCHANGED <<events, zc_services, known_services>>
    /\ ObserverFrame

\* Lines 376-410: candidate_ips = self.rloc_ips.get(rloc, []) and the
\* injection.
LookupIpsAndInject ==
    /\ Running
    /\ ob_pc = "lookup_ips"
    /\ LET info          == ob.info
           candidate_ips == CandidateIps(rloc_ips, ob.rloc)
           addr_bytes    == PackAll(candidate_ips)
           registers     == ShouldInject(info, candidate_ips) /\ addr_bytes # <<>>
           new_info      == CorrectedInfo(info, addr_bytes)
       IN  \E io_error \in (IF registers THEN BOOLEAN ELSE {FALSE}) :
             LET exc   == RegisterRaises(zc_services, new_info, CooperatingResponders,
                                         {}, io_error)
                 calls == IF registers
                          THEN <<Call("register_service", "check_service", new_info,
                                      CooperatingResponders, exc)>>
                          ELSE <<>>
             IN  /\ zc_services' = IF registers
                                   THEN RegistryAfterRegister(zc_services, new_info, exc)
                                   ELSE zc_services
                 /\ known_services' = IF registers /\ exc = ""
                                      THEN DictSet(known_services, info.name, new_info)
                                      ELSE known_services
                 /\ last_check' = CheckRecord(info, ob.target_mac, TRUE, ob.rloc,
                                              candidate_ips, ob.mac_gen, rloc_ips_gen,
                                              mac_rloc, rloc_ips, zc_services, calls)
    /\ ob' = None
    /\ ob_pc' = "idle"
    /\ UNCHANGED events
    /\ ObserverFrame

(***************************************************************************)
(* Spec: the main thread, with every answer of the mesh-control interface  *)
(* and every failure of a command.                                         *)
(***************************************************************************)
Init == InitWith(InitialKernelRoutes, MeshReports)

UpdateMdns ==
    UpdateMdnsOn(DatasetSamples, QueryFailures, InterfaceAddressTexts,
                 ForeignOwnerships, ResponderFailures)
SyncOmrRoutes == SyncOmrRoutesOn(NetdataReports, RouteFailures)
UpdateIpsStoreRlocIps == UpdateIpsStoreRlocIpsOn(MeshReports, ThreadCommandFailures)

Next ==
    \/ UpdateMdns
    \/ SyncOmrRoutes
    \/ UpdateIpsStoreRlocIps
    \/ UpdateIpsStoreMacRloc
    \/ Sleep
    \/ Signal
    \/ HandleException

Spec == Init /\ [][Next]_vars

(***************************************************************************)
(* SpecFixer: the main thread and the observer thread together.  The main  *)
(* thread's inputs that the fixer never reads are held to one answer each, *)
(* and no signal arrives.                                                  *)
(***************************************************************************)
FixerSamples == {<<DatasetGood, ExtAddrHex, BaidHex>>, <<<<>>, <<>>, <<>>>>}

InitFixer == InitWith({{}}, MeshReports)

FixerUpdateMdns == UpdateMdnsOn(FixerSamples, {{}}, {<<>>}, {{}}, {""})
FixerSyncOmrRoutes == SyncOmrRoutesOn({NetdataOne}, {{}})
FixerUpdateIpsStoreRlocIps == UpdateIpsStoreRlocIpsOn(MeshReports, {{}})

NextFixer ==
    \/ FixerUpdateMdns
    \/ FixerSyncOmrRoutes
    \/ FixerUpdateIpsStoreRlocIps
    \/ UpdateIpsStoreMacRloc
    \/ Sleep
    \/ HandleException
    \/ ServiceEvent
    \/ RemoveService
    \/ LookupRloc
    \/ LookupIpsAndInject

SpecFixer == InitFixer /\ [][NextFixer]_vars

(***************************************************************************)
(* mdns_publisher.py: the publisher that reads the dataset from files.     *)
(***************************************************************************)
SERVICE_TYPE == <<"_", "m", "e", "s", "h", "c", "o", "p", ".", "_", "u", "d", "p", ".", "l", "o", "c", "a", "l", ".">>
SERVER_NAME == <<"o", "t", "b", "r", "-", "s", "e", "r", "v", "e", "r", ".", "l", "o", "c", "a", "l", ".">>
PORT == 49154

\* s.strip() for a text of several lines.
RECURSIVE StripWhitespace(_)
StripWhitespace(s) ==
    IF s = <<>> THEN s
    ELSE IF Head(s) \in {" ", "\n"} THEN StripWhitespace(Tail(s))
    ELSE IF s[Len(s)] \in {" ", "\n"} THEN StripWhitespace(SubSeq(s, 1, Len(s) - 1))
    ELSE s

\* read_file(filename) for a file given by whether it exists, whether reading
\* it raises, and its content; <<>> stands for None (the caller tests the
\* result with "not").
read_file(file) ==
    IF ~file.exists \/ file.unreadable THEN <<>>
    ELSE LET content == StripWhitespace(file.content)
         IN  IF Contains(content, ErrorMarker) \/ content = <<>> THEN <<>>
             ELSE StripWhitespace(SplitOn(content, "\n")[1])

\* get_properties() for the three files of the data directory.
get_properties(files) ==
    LET dataset_hex == read_file(files.dataset)
        extaddr     == read_file(files.extaddr)
        baid        == read_file(files.baid)
    IN  IF dataset_hex = <<>> \/ extaddr = <<>> \/ baid = <<>> THEN None
        ELSE LET tlvs == publisher_parse_tlv(dataset_hex)
             IN  IF 3 \notin DOMAIN tlvs \/ 2 \notin DOMAIN tlvs THEN None
                 ELSE LET xa  == FromHex(extaddr)
                          bid == FromHex(baid)
                      IN  IF ~Utf8Valid(tlvs[3]) \/ ~xa.ok \/ ~bid.ok THEN None
                          ELSE [nn |-> tlvs[3],
                                xp |-> tlvs[2],
                                tv |-> "1.4.0",
                                xa |-> xa.bytes,
                                id |-> bid.bytes,
                                sb |-> FromHex(<<"0", "0", "0", "0", "0", "0", "3", "0">>).bytes]

\* The value of a decimal numeral.
RECURSIVE DecimalVal(_)
DecimalVal(digits) ==
    IF digits = <<>> THEN 0
    ELSE 10 * DecimalVal(SubSeq(digits, 1, Len(digits) - 1))
         + ((CHOOSE d \in 1..10 : HexDigits[d] = digits[Len(digits)]) - 1)

\* socket.inet_aton(ip_addr) for a dotted quad.
inet_aton(ip_addr) ==
    LET quad == SplitOn(ip_addr, ".") IN [k \in 1..4 |-> DecimalVal(quad[k])]

\* get_ip(): the address of the socket, or 127.0.0.1 when connecting fails.
Loopback == <<"1", "2", "7", ".", "0", ".", "0", ".", "1">>
get_ip(primary, connect_fails) == IF connect_fails THEN Loopback ELSE primary

\* Lines 152-158.
publisher_is_different(current_info, new_info) ==
    IF current_info = None THEN TRUE
    ELSE IF current_info.name # new_info.name THEN TRUE
    ELSE current_info.properties # new_info.properties

\* Lines 160-170 with the two calls in the other order.
Republish_register_first(services, current_info, new_info, owned_elsewhere, failing) ==
    LET exc == RegisterRaises(services, new_info, FALSE, owned_elsewhere,
                              failing = "register_service")
        reg == Call("register_service", "main", new_info, FALSE, exc)
        s1  == RegistryAfterRegister(services, new_info, exc)
    IN  IF exc \notin {"", "NonUniqueNameException"}
        THEN [raised |-> exc, current_info |-> current_info, calls |-> <<reg>>,
              services |-> s1]
        ELSE IF current_info = None
        THEN [raised |-> "", current_info |-> IF exc = "" THEN new_info ELSE None,
              calls |-> <<reg>>, services |-> s1]
        ELSE [raised |-> "",
              current_info |-> IF exc = "" THEN new_info ELSE current_info,
              calls |-> <<reg, Call("unregister_service", "main", current_info,
                                    FALSE, "")>>,
              services |-> s1]

\* Lines 160-170: the old record is withdrawn, then the new one is
\* registered.  failing names the responder operation that fails for a
\* reason of the network.
Republish(services, current_info, new_info, owned_elsewhere, failing) ==
    LET unreg_exc == IF current_info # None /\ failing = "unregister_service"
                     THEN "OSError" ELSE ""
        unreg     == IF current_info # None
                     THEN <<Call("unregister_service", "main", current_info,
                                 FALSE, unreg_exc)>>
                     ELSE <<>>
        s1        == IF current_info # None /\ unreg_exc = ""
                     THEN RegistryAfterUnregister(services, current_info)
                     ELSE services
    IN  IF unreg_exc # ""
        THEN [raised |-> unreg_exc, current_info |-> current_info, calls |-> unreg,
              services |-> s1]
        ELSE LET exc == RegisterRaises(s1, new_info, FALSE, owned_elsewhere,
                                       failing = "register_service")
                 reg == Call("register_service", "main", new_info, FALSE, exc)
             IN  [raised       |-> IF exc \in {"", "NonUniqueNameException"}
                                   THEN "" ELSE exc,
                  current_info |-> IF exc = "" THEN new_info ELSE current_info,
                  calls        |-> unreg \o <<reg>>,
                  services     |-> RegistryAfterRegister(s1, new_info, exc)]

\* One pass of the loop of main, lines 136-176.
publisher_cycle(services, current_info, props, ip_addr, owned_elsewhere, failing) ==
    IF props # None
    THEN LET new_info == ServiceInfo(SERVICE_TYPE, props.nn \o <<".">> \o SERVICE_TYPE,
                                     <<inet_aton(ip_addr)>>, PORT, props, SERVER_NAME)
         IN  IF publisher_is_different(current_info, new_info)
             THEN [new_info |-> new_info]
                  @@ Republish(services, current_info, new_info, owned_elsewhere, failing)
             ELSE [new_info |-> new_info, raised |-> "", current_info |-> current_info,
                   calls |-> <<>>, services |-> services]
    ELSE \* lines 171-176
         IF current_info = None
         THEN [new_info |-> None, raised |-> "", current_info |-> None,
               calls |-> <<>>, services |-> services]
         ELSE IF failing = "unregister_service"
         THEN [new_info |-> None, raised |-> "OSError", current_info |-> current_info,
               calls |-> <<Call("unregister_service", "main", current_info,
                                FALSE, "OSError")>>,
               services |-> services]
         ELSE [new_info |-> None, raised |-> "", current_info |-> None,
               calls |-> <<Call("unregister_service", "main", current_info,
                                FALSE, "")>>,
               services |-> RegistryAfterUnregister(services, current_info)]

\* The calls of signal_handler (lines 126-128) and of the finally block
\* (lines 183-185), each made by the part of main named by.
ShutdownCalls(by, current_info) ==
    (IF current_info # None
     THEN <<Call("unregister_service", by, current_info, FALSE, "")>>
     ELSE <<>>)
    \o <<Call("close", by, None, FALSE, "")>>

\* The files of the data directory.
File(content) == [exists |-> TRUE, unreadable |-> FALSE, content |-> content]
MissingFile == [exists |-> FALSE, unreadable |-> FALSE, content |-> <<>>]
UnreadableFile == [exists |-> TRUE, unreadable |-> TRUE, content |-> <<>>]
DataFiles(dataset, extaddr, baid) ==
    [dataset |-> dataset, extaddr |-> extaddr, baid |-> baid]

DataDirectories ==
    { DataFiles(File(DatasetGood \o <<"\n">>), File(ExtAddrHex \o <<"\n">>),
                File(BaidHex \o <<"\n">>)),
      DataFiles(File(DatasetOtherName \o <<"\n">>), File(ExtAddrHex), File(BaidHex)),
      DataFiles(File(DatasetGood \o <<"\n", "D", "o", "n", "e", "\n">>),
                File(ExtAddrHex), File(BaidHex)),
      DataFiles(MissingFile, File(ExtAddrHex), File(BaidHex)),
      DataFiles(File(ErrorOutput), File(ExtAddrHex), File(BaidHex)),
      DataFiles(File(DatasetGood), UnreadableFile, File(BaidHex)),
      DataFiles(File(DatasetNoName), File(ExtAddrHex), File(BaidHex)) }

\* The addresses of the primary interface.
PrimaryAddresses ==
    { <<"1", "9", "2", ".", "0", ".", "2", ".", "1">>,
      <<"1", "0", ".", "0", ".", "0", ".", "2", "5", "4">> }

\* Line 137: what get_properties() returns for the data directories.
PublisherSamples == {get_properties(files) : files \in DataDirectories}

\* Line 141: what get_ip() returns.
PublisherAddresses ==
    {get_ip(primary, connect_fails) :
        primary \in PrimaryAddresses, connect_fails \in BOOLEAN}

InitPublisher ==
    /\ pc = "publisher_loop"
    /\ cycle = 0
    /\ current_mdns_info = None
    /\ exit_cause = ""
    /\ avail_hist = <<>>
    /\ call_failed = FALSE
    /\ last_update = None
    /\ kernel_routes = {}
    /\ last_sync = None
    /\ zc_services = EmptyDict
    /\ zc_closed = FALSE
    /\ main_calls = <<>>
    /\ rloc_ips = EmptyDict
    /\ mac_rloc = EmptyDict
    /\ known_services = EmptyDict
    /\ pending_mac_rloc = None
    /\ rloc_ips_gen = 0
    /\ mac_rloc_gen = 0
    /\ ob_pc = "idle"
    /\ ob = None
    /\ events = 0
    /\ last_check = None
    /\ call = None
    /\ returned = None

\* What the publisher does not have: routes, the association table, the
\* observer thread.
PublisherFrame ==
    UNCHANGED <<kernel_routes, last_sync, rloc_ips, mac_rloc, known_services,
                pending_mac_rloc, rloc_ips_gen, mac_rloc_gen, ob_pc, ob, events,
                last_check, call, returned, call_failed>>

\* One pass of the loop, up to and including time.sleep(15); an exception
\* other than the collision is logged at line 181 and followed by the
\* finally block, which ends main.  current_mdns_info holds main's local
\* current_info.
PublisherCycle ==
    /\ pc = "publisher_loop"
    /\ cycle < MaxCycles
    /\ \E props \in PublisherSamples, ip_addr \in PublisherAddresses,
          owned \in ForeignOwnerships, failing \in ResponderFailures :
         LET r     == publisher_cycle(zc_services, current_mdns_info, props,
                                      ip_addr, owned, failing)
             final == IF r.raised = "" THEN <<>>
                      ELSE ShutdownCalls("finally", r.current_info)
         IN  /\ last_update' = [current_info    |-> current_mdns_info,
                                new_info        |-> r.new_info,
                                owned_elsewhere |-> owned,
                                failing         |-> failing,
                                raised          |-> r.raised,
                                calls           |-> r.calls,
                                services        |-> zc_services]
             /\ current_mdns_info' = r.current_info
             /\ main_calls' = main_calls \o r.calls \o final
             /\ zc_services' = IF r.raised = "" THEN r.services
                               ELSE CleanupRegistry(r.services, r.current_info)
             /\ zc_closed' = (r.raised # "")
             /\ pc' = IF r.raised = "" THEN "publisher_loop" ELSE "exited"
             /\ exit_cause' = IF r.raised = "" THEN "" ELSE "exception"
             /\ avail_hist' = Append(avail_hist, props # None)
    /\ cycle' = cycle + 1
    /\ PublisherFrame

\* SIGTERM or SIGINT while main sleeps: signal_handler runs, sys.exit(0)
\* raises SystemExit in main, which no handler of main catches, and the
\* finally block runs.
PublisherSignal ==
    /\ pc = "publisher_loop"
    /\ main_calls' = main_calls \o ShutdownCalls("signal_handler", current_mdns_info)
                                \o ShutdownCalls("finally", current_mdns_info)
    /\ zc_services' = CleanupRegistry(zc_services, current_mdns_info)
    /\ zc_closed' = TRUE
    /\ pc' = "exited"
    /\ exit_cause' = "signal"
    /\ last_update' = None
    /\ UNCHANGED <<cycle, current_mdns_info, avail_hist>>
    /\ PublisherFrame

NextPublisher ==
    \/ PublisherCycle
    \/ PublisherSignal

SpecPublisher == InitPublisher /\ [][NextPublisher]_vars

(***************************************************************************)
(* The functions of the two scripts called on their own, on arguments      *)
(* drawn from the sets below.                                              *)
(***************************************************************************)
\* The properties of the sample (DatasetGood, ExtAddrHex, BaidHex) and of
\* samples that differ from it in the network name only, in the vendor text
\* only (OTBR_VENDOR) and in the model text only (OTBR_MODEL).
PropsMyMesh == get_mdns_properties(DatasetGood, ExtAddrHex, BaidHex)
PropsOtherName == get_mdns_properties(DatasetOtherName, ExtAddrHex, BaidHex)
PropsOtherVendor == [PropsMyMesh EXCEPT !.vn = "Acme"]
PropsOtherModel == [PropsMyMesh EXCEPT !.mn = "OTBR-2"]
PropsSamples == {PropsMyMesh, PropsOtherName, PropsOtherVendor, PropsOtherModel}

\* What get_ipv6_addresses returns for one or two global addresses of the
\* mesh interface, in either order.
AddrA == ColonGroups(<<"f", "d", "0", "1">> \o Repeat("0", 24) \o <<"0", "0", "0", "1">>)
AddrB == ColonGroups(<<"f", "d", "0", "1">> \o Repeat("0", 24) \o <<"0", "0", "0", "2">>)
AddressLists == {<<>>, <<AddrA>>, <<AddrB>>, <<AddrA, AddrB>>, <<AddrB, AddrA>>}

\* The record lines 168-175 build from props and ip_addrs (lines 157-166).
\* The decision of lines 177-186 does not read the port.
BuiltRecord(props, ip_addrs) ==
    ServiceInfo(mDNS_SERVICE_TYPE, props.nn \o <<".">> \o mDNS_SERVICE_TYPE,
                PackAll(ip_addrs), 49154, props, mDNS_SERVER_NAME)

BuiltRecords == {BuiltRecord(p, a) : p \in PropsSamples, a \in AddressLists}

IsDifferentCalls ==
    {[fn |-> "is_different", current_info |-> c, new_info |-> n] :
        c \in BuiltRecords \cup {None}, n \in BuiltRecords}

\* Byte buffers of TLVs: the dataset, a buffer with a tag that occurs twice
\* and a value of length zero, and one whose only length byte is 255.
BufferRepeatedTag == Tlv(3, <<1>>) \o Tlv(5, <<>>) \o Tlv(3, <<2, 3>>)
BufferLongLength == <<7, 255, 1, 2>>
TlvBuffers ==
    {ChannelTlv \o Tlv(2, ExtPanId) \o Tlv(3, NameMyMesh), BufferRepeatedTag,
     BufferLongLength}

\* Every buffer cut at every point.
TruncatedBuffers == UNION {{SubSeq(b, 1, n) : n \in 0..Len(b)} : b \in TlvBuffers}

ParseTlvCalls(fn) ==
    {[fn |-> fn, buffer |-> b, hex_str |-> HexOf(b)] : b \in TruncatedBuffers}

\* Values of OTBR_HOSTNAME: the default, a bare name, names that already
\* carry the suffix with or without the final dot, a name with a final dot
\* only, and the empty text.
HostNames ==
    { DefaultHostName,
      <<"o", "t", "b", "r">>,
      <<"o", "t", "b", "r", ".", "l", "o", "c", "a", "l">>,
      <<"o", "t", "b", "r", ".", "l", "o", "c", "a", "l", ".">>,
      <<"o", "t", "b", "r", ".">>,
      <<".", "l", "o", "c", "a", "l", ".">>,
      <<>> }

ServerNameCalls == {[fn |-> "mDNS_SERVER_NAME", env_hostname |-> h] : h \in HostNames}

GetIpv6AddressesCalls ==
    {[fn |-> "get_ipv6_addresses", table |-> t, readable |-> r, interface |-> Wpan0] :
        t \in InetTables, r \in BOOLEAN}

InitCalls ==
    /\ pc = "call"
    /\ cycle = 0
    /\ current_mdns_info = None
    /\ exit_cause = ""
    /\ avail_hist = <<>>
    /\ call_failed = FALSE
    /\ last_update = None
    /\ kernel_routes = {}
    /\ last_sync = None
    /\ zc_services = EmptyDict
    /\ zc_closed = FALSE
    /\ main_calls = <<>>
    /\ rloc_ips = EmptyDict
    /\ mac_rloc = EmptyDict
    /\ known_services = EmptyDict
    /\ pending_mac_rloc = None
    /\ rloc_ips_gen = 0
    /\ mac_rloc_gen = 0
    /\ ob_pc = "idle"
    /\ ob = None
    /\ events = 0
    /\ last_check = None
    /\ \/ call \in IsDifferentCalls
       \/ call \in ParseTlvCalls("parse_tlv")
       \/ call \in ParseTlvCalls("publisher_parse_tlv")
       \/ call \in GetIpv6AddressesCalls
       \/ call \in ServerNameCalls
    /\ returned = None

\* The call of function fn returns value.
Return(fn, value) ==
    /\ pc = "call"
    /\ call.fn = fn
    /\ returned = None
    /\ returned' = [value |-> value]
    /\ UNCHANGED <<pc, cycle, current_mdns_info, exit_cause, avail_hist, call_failed,
                   last_update, kernel_routes, last_sync, zc_services, zc_closed,
                   main_calls, rloc_ips, mac_rloc, known_services, pending_mac_rloc,
                   rloc_ips_gen, mac_rloc_gen, ob_pc, ob, events, last_check, call>>

CallIsDifferent ==
    /\ call.fn = "is_different"
    /\ Return("is_different", is_different(call.current_info, call.new_info))

CallParseTlv ==
    /\ call.fn = "parse_tlv"
    /\ Return("parse_tlv", parse_tlv(call.hex_str))

CallPublisherParseTlv ==
    /\ call.fn = "publisher_parse_tlv"
    /\ Return("publisher_parse_tlv", publisher_parse_tlv(call.hex_str))

CallGetIpv6Addresses ==
    /\ call.fn = "get_ipv6_addresses"
    /\ Return("get_ipv6_addresses",
              get_ipv6_addresses(InetLines(call.table), call.readable, call.interface))

\* Lines 33-38 for a value of OTBR_HOSTNAME.
CallServerName ==
    /\ call.fn = "mDNS_SERVER_NAME"
    /\ Return("mDNS_SERVER_NAME", NormalizeHostName(call.env_hostname))

NextCalls ==
    \/ CallServerName
    \/ CallIsDifferent
    \/ CallParseTlv
    \/ CallPublisherParseTlv
    \/ CallGetIpv6Addresses

SpecCalls == InitCalls /\ [][NextCalls]_vars

(***************************************************************************)
(* Properties of the Advertisement Reconciler and of the driver loop.      *)
(***************************************************************************)
\* The dataset sample of an update_mdns call u is unavailable: one of the
\* three answers is empty or carries the error marker, tag 2 or tag 3 is
\* missing from the decoded dataset, or a value does not decode.
SampleUnavailable(u) ==
    \/ u.dataset_hex = <<>> \/ u.extaddr = <<>> \/ u.baid = <<>>
    \/ Contains(u.dataset_hex, ErrorMarker)
    \/ Contains(u.extaddr, ErrorMarker)
    \/ Contains(u.baid, ErrorMarker)
    \/ LET tlvs == parse_tlv(u.dataset_hex)
       IN  \/ 2 \notin DOMAIN tlvs
           \/ 3 \notin DOMAIN tlvs
           \/ ~Utf8Valid(tlvs[3])
    \/ ~FromHex(u.extaddr).ok
    \/ ~FromHex(u.baid).ok

\* The instance name update_mdns is to publish for the sample of u.
InstanceNameOf(u) == parse_tlv(u.dataset_hex)[3] \o <<".">> \o mDNS_SERVICE_TYPE

IsReconcilerCall(c) == c.by = "update_mdns"

\* The operations update_mdns performed on the responder, in order.
ReconcilerOps(calls) ==
    LET own == SelectSeq(calls, IsReconcilerCall)
    IN  [i \in 1..Len(own) |-> own[i].op]

\* The update_mdns call of this pass has just ended and the process has not
\* been told to stop.
AfterUpdateMdns == last_update # None /\ pc \in {"sync_omr_routes", "except"}

AvailableUnavailableAvailable == <<TRUE, FALSE, TRUE>>
RegisterUnregisterRegister ==
    <<"register_service", "unregister_service", "register_service">>

\* C1: starting with nothing published, while the availability of the
\* dataset sample over the passes so far is a prefix of available,
\* unavailable, available and no call on the responder has failed, the
\* operations the reconciler has performed on the responder are the same
\* prefix of register, unregister, register; and the reconciler never has
\* more than one record registered.
C1_PublishWithdrawRepublish ==
    LET k == Len(avail_hist)
    IN  (/\ k \in 1..3
         /\ avail_hist = SubSeq(AvailableUnavailableAvailable, 1, k)
         /\ pc # "exited"
         /\ \A i \in 1..Len(main_calls) : main_calls[i].raised = "")
        => /\ ReconcilerOps(main_calls) = SubSeq(RegisterUnregisterRegister, 1, k)
           /\ Cardinality({n \in DOMAIN zc_services :
                             zc_services[n].type = mDNS_SERVICE_TYPE}) <= 1

\* C2: when the sample of a pass succeeds while nothing is published (and
\* nobody else owns the name, and the responder works), the pass's update_mdns
\* leaves a record that is registered with the responder and tracked, named
\* <network name>._meshcop._udp.local., on the configured port, with the
\* network name, extended PAN ID, extended address and border-agent id of
\* the sample.
C2_SuccessfulSampleIsPublished ==
    (/\ AfterUpdateMdns
     /\ ~SampleUnavailable(last_update)
     /\ last_update.current_info = None
     /\ last_update.owned_elsewhere = {}
     /\ last_update.failing = "")
    => /\ current_mdns_info # None
       /\ current_mdns_info.name = InstanceNameOf(last_update)
       /\ (last_update.dataset_hex = DatasetGood
             => current_mdns_info.name = NameMyMesh \o <<".">> \o mDNS_SERVICE_TYPE)
       /\ LoadGlobal("mDNS_PORT").ok
       /\ current_mdns_info.port = LoadGlobal("mDNS_PORT").val
       /\ current_mdns_info.properties.nn = parse_tlv(last_update.dataset_hex)[3]
       /\ current_mdns_info.properties.xp = parse_tlv(last_update.dataset_hex)[2]
       /\ current_mdns_info.properties.xa = FromHex(last_update.extaddr).bytes
       /\ current_mdns_info.properties.id = FromHex(last_update.baid).bytes
       /\ current_mdns_info.name \in DOMAIN zc_services
       /\ zc_services[current_mdns_info.name] = current_mdns_info

\* C3: when the sample of a pass succeeds and another responder owns the
\* instance name, so that registering collides, update_mdns returns, the
\* tracked record and the responder's registry are what they were before the
\* pass, and the process keeps running.
C3_CollisionKeepsPreviousState ==
    (/\ AfterUpdateMdns
     /\ ~SampleUnavailable(last_update)
     /\ InstanceNameOf(last_update) \in last_update.owned_elsewhere
     /\ last_update.failing = "")
    => /\ last_update.raised = ""
       /\ pc = "sync_omr_routes"
       /\ current_mdns_info = last_update.current_info
       /\ zc_services = last_update.services

\* C9: when the sample of a pass is unavailable, update_mdns returns without
\* raising, has withdrawn the tracked record if there was one, has made no
\* register call and leaves nothing tracked, and the pass goes on to the
\* route sync; the process reaches main's exception handler only in a pass
\* whose sample was available.
C9_UnavailableSampleIsNotFatal ==
    /\ (AfterUpdateMdns /\ SampleUnavailable(last_update))
       => /\ last_update.raised = ""
          /\ pc = "sync_omr_routes"
          /\ current_mdns_info = None
          /\ \A i \in 1..Len(last_update.calls) :
               last_update.calls[i].op # "register_service"
          /\ (last_update.current_info # None
                => /\ Len(last_update.calls) = 1
                   /\ last_update.calls[1].op = "unregister_service"
                   /\ last_update.calls[1].info = last_update.current_info)
    /\ (pc = "except" \/ (pc = "exited" /\ exit_cause # "signal"))
       => avail_hist # <<>> /\ avail_hist[Len(avail_hist)]

\* Two passes in a row had an unavailable sample and the second goes on.
C9_Witness ==
    /\ AfterUpdateMdns
    /\ SampleUnavailable(last_update)
    /\ avail_hist = <<FALSE, FALSE>>
    /\ pc = "sync_omr_routes"

\* C10: a pass in which a mesh-control query or a route command failed does
\* not reach main's exception handler, and a pass in which the responder
\* fails the register call of update_mdns goes on to the route
\* sync.
C10_FailedCallDoesNotStopThePass ==
    /\ call_failed => /\ pc # "except"
                      /\ (pc = "exited" => exit_cause = "signal")
    /\ (/\ AfterUpdateMdns
        /\ ~SampleUnavailable(last_update)
        /\ last_update.failing = "register_service")
       => /\ last_update.raised = ""
          /\ pc = "sync_omr_routes"

(***************************************************************************)
(* Properties of the Discovery Fixer.                                      *)
(***************************************************************************)
\* A check_service call that resolved an announcement has just ended.
AfterCheck == last_check # None /\ last_check.info # None

\* The register calls the check_service call made.
RegisterCalls(c) ==
    {c.calls[i] : i \in {j \in 1..Len(c.calls) : c.calls[j].op = "register_service"}}

\* m of an announcement's host name: the name without its '.local.' suffix
\* when that leaves exactly 16 characters (letter case aside).
VerifiedMac(server) ==
    LET host == Lower(server)
    IN  IF EndsWith(host, DotLocalDot) /\ Len(host) - Len(DotLocalDot) = 16
        THEN SubSeq(host, 1, 16)
        ELSE NoMac

\* rlocToAddresses[extendedMacToRloc[m]] of an association table, empty when
\* m or its locator is not in the table.
VerifiedAddresses(macs, ips, m) ==
    IF m # NoMac /\ m \in DOMAIN macs THEN DictGet(ips, macs[m], <<>>) ELSE <<>>

\* C5: a check_service call that read both mappings of the association
\* table read a MAC-to-locator mapping and a locator-to-addresses mapping
\* stored by the same update_ips call.
C5_ObserverReadsOneSnapshot ==
    (AfterCheck /\ last_check.both_read)
    => last_check.mac_gen = last_check.ips_gen

\* C6: every address of a correction the Fixer registers is an address the
\* association table of that moment gives for m, the host name without its
\* '.local.' suffix, 16 characters long; when the host name yields no such
\* m, or the table gives m no address, no registration is issued.
C6_OnlyVerifiedAddressesAreInjected ==
    AfterCheck
    => LET verified == VerifiedAddresses(last_check.mac_rloc_now,
                                         last_check.rloc_ips_now,
                                         VerifiedMac(last_check.info.server))
       IN  \A c \in RegisterCalls(last_check) :
             /\ verified # <<>>
             /\ SeqToSet(c.info.addresses) \subseteq SeqToSet(PackAll(verified))

\* C7: for an announcement without addresses for whose host name the call
\* resolved a non-empty address set, check_service makes exactly one call on
\* the responder: a cooperative registration of the same type, instance
\* name, port, properties and host name with exactly the resolved addresses;
\* for an announcement that carries an address it makes no call.
C7_OneCooperativeCorrection ==
    AfterCheck
    => /\ (last_check.info.addresses = <<>> /\ last_check.candidate_ips # <<>>)
          => /\ Len(last_check.calls) = 1
             /\ last_check.calls[1].op = "register_service"
             /\ last_check.calls[1].coop
             /\ last_check.calls[1].info =
                  ServiceInfo(last_check.info.type, last_check.info.name,
                              PackAll(last_check.candidate_ips), last_check.info.port,
                              last_check.info.properties, last_check.info.server)
       /\ last_check.info.addresses # <<>> => last_check.calls = <<>>

\* C8: a registration of a correction under an instance name the responder
\* already has registered succeeds (when the network does not fail it), and
\* the registered record then carries the newly resolved addresses.
C8_RepeatedCorrectionUpdates ==
    AfterCheck
    => \A c \in RegisterCalls(last_check) :
         (c.info.name \in DOMAIN last_check.services_before /\ c.raised # "OSError")
         => /\ c.raised = ""
            /\ zc_services[c.info.name].addresses = c.info.addresses

(***************************************************************************)
(* Properties of the Route Reconciler.                                     *)
(***************************************************************************)
\* A sync_omr_routes call has just ended.
AfterSync == last_sync # None

\* The prefixes the commands of the call name.
CommandPrefixes(y) == {y.cmds[i].prefix : i \in 1..Len(y.cmds)}

\* desired: the prefixes sampled from the Prefixes section of the report.
Desired(y) == SamplePrefixes(y.netdata, FALSE, {})

\* current: the first tokens of the route rows the kernel answered with.
Current(y) == CurrentRoutes(y.route_rows)

\* C11: no command of any sync_omr_routes call names the prefix ::/0.
C11_DefaultRouteIsNeverInstalled ==
    AfterSync => DefaultRoute \notin CommandPrefixes(last_sync)

\* The report lists ::/0 in its Prefixes section and the call ran commands.
C11_Witness ==
    /\ AfterSync
    /\ last_sync.netdata = NetdataTwo
    /\ last_sync.cmds # <<>>
    /\ DefaultRoute \notin CommandPrefixes(last_sync)

\* C12: the commands of one sync_omr_routes call are add-or-replace
\* commands, one for each prefix of desired \ current and no other.
C12_OneCommandPerMissingPrefix ==
    AfterSync
    => /\ CommandPrefixes(last_sync) = Desired(last_sync) \ Current(last_sync)
       /\ Cardinality(CommandPrefixes(last_sync)) = Len(last_sync.cmds)
       /\ \A i \in 1..Len(last_sync.cmds) : last_sync.cmds[i].op = "add_or_replace"

\* desired = {P1, P2}, current = {P1}: one command, for P2.
C12_Witness ==
    /\ AfterSync
    /\ Desired(last_sync) = {PrefixP1, PrefixP2}
    /\ Current(last_sync) = {PrefixP1}
    /\ last_sync.cmds = <<RouteCommand("add_or_replace", PrefixP2)>>

\* C13: every kernel route whose prefix the report does not name is still
\* there after the call, and the call runs no deletion command.
C13_StaleRoutesAreLeftAlone ==
    AfterSync
    => /\ \A r \in last_sync.routes_before :
            r[1] \notin Desired(last_sync) => r \in kernel_routes
       /\ \A i \in 1..Len(last_sync.cmds) : last_sync.cmds[i].op # "del"

\* A stale route was there, the call added another route, the stale one stays.
C13_Witness ==
    /\ AfterSync
    /\ <<PrefixStale, 256>> \in last_sync.routes_before
    /\ PrefixStale \notin Desired(last_sync)
    /\ last_sync.cmds # <<>>
    /\ <<PrefixStale, 256>> \in kernel_routes

(***************************************************************************)
(* Properties of single functions.                                         *)
(***************************************************************************)
\* The call of fn has returned.
Returned(fn) == call # None /\ call.fn = fn /\ returned # None

\* C14: the decision of update_mdns is to re-publish exactly when nothing is
\* tracked or the fresh record differs from the tracked one in the instance
\* name, in the properties or in the set of its addresses (whatever their
\* order).
C14_RepublishExactlyOnDifference ==
    Returned("is_different")
    => returned.value
       = (\/ call.current_info = None
          \/ call.current_info.name # call.new_info.name
          \/ call.current_info.properties # call.new_info.properties
          \/ SeqToSet(call.current_info.addresses) # SeqToSet(call.new_info.addresses))

\* The TLVs of a buffer that lie in it completely, in order: tag byte,
\* length byte and as many value bytes as the length byte says.
RECURSIVE CompleteEntries(_)
CompleteEntries(buffer) ==
    IF Len(buffer) < 2 THEN <<>>
    ELSE IF Len(buffer) < 2 + buffer[2] THEN <<>>
    ELSE <<[tag |-> buffer[1], value |-> SubSeq(buffer, 3, 2 + buffer[2])]>>
         \o CompleteEntries(SubSeq(buffer, 3 + buffer[2], Len(buffer)))

\* The mapping returned for the buffer of the call holds exactly the tags
\* of the complete TLVs, each with the value of its last complete TLV.
ReturnsCompleteEntries ==
    LET entries == CompleteEntries(call.buffer)
        tags    == {entries[k].tag : k \in 1..Len(entries)}
        last(t) == CHOOSE k \in 1..Len(entries) :
                     /\ entries[k].tag = t
                     /\ \A m \in (k + 1)..Len(entries) : entries[m].tag # t
    IN  /\ DOMAIN returned.value = tags
        /\ \A t \in tags : returned.value[t] = entries[last(t)].value

\* C15: for every buffer passed as its hex encoding, parse_tlv of either
\* script returns the mapping of the TLVs that lie completely before the end
\* of the buffer, each with its value bytes, and no entry for a TLV whose
\* length byte overruns the buffer.
C15_TruncatedBufferYieldsCompleteTags ==
    /\ Returned("parse_tlv") => ReturnsCompleteEntries
    /\ Returned("publisher_parse_tlv") => ReturnsCompleteEntries

\* The dataset cut inside the value of its network-name TLV: the two TLVs
\* before it are returned.
C15_Witness ==
    /\ Returned("parse_tlv")
    /\ Len(call.buffer) = 20
    /\ call.buffer[16] = 3
    /\ DOMAIN returned.value = {0, 2}
    /\ returned.value[2] = ExtPanId

\* An address of the interface-address table as its eight groups.
GroupsOfBound(r) ==
    <<GroupVal(r.first_group), 0, 0, 0, 0, 0, 0, GroupVal(r.last_group)>>

\* The address lies in fe80::/10: its first group is fe80 .. febf.
InLinkLocalPrefix(r) == GroupVal(r.first_group) \in 65152..65215

\* C16: for every content of the interface-address table that can be read,
\* get_ipv6_addresses(interface) returns the addresses bound to the
\* interface that lie outside fe80::/10, and no other address.
C16_LinkLocalAddressesAreExcluded ==
    (Returned("get_ipv6_addresses") /\ call.readable)
    => SeqToSet(PackAll(returned.value))
       = {GroupsOfBound(call.table[k]) :
            k \in {i \in 1..Len(call.table) :
                     /\ call.table[i].device = call.interface
                     /\ ~InLinkLocalPrefix(call.table[i])}}

(***************************************************************************)
(* Properties of re-publication.                                           *)
(***************************************************************************)
\* The records a responder holds after the calls made on it, starting with
\* none: a register call that returned adds its record, an unregister call
\* that returned removes it, close removes all.
RECURSIVE RegistryAfterCalls(_)
RegistryAfterCalls(calls) ==
    IF calls = <<>> THEN {}
    ELSE LET before == RegistryAfterCalls(SubSeq(calls, 1, Len(calls) - 1))
             c      == calls[Len(calls)]
         IN  IF c.raised # "" THEN before
             ELSE IF c.op = "register_service" THEN before \cup {c.info}
             ELSE IF c.op = "unregister_service" THEN before \ {c.info}
             ELSE {}

\* A pass of the publisher's loop has just ended.
AfterPublisherCycle == last_update # None /\ pc \in {"publisher_loop", "exited"}

\* The tracked record of the pass was registered when the pass began.
WasPublished ==
    /\ last_update.current_info # None
    /\ last_update.current_info.name \in DOMAIN last_update.services
    /\ last_update.services[last_update.current_info.name] = last_update.current_info

\* C17: after every call the main thread has made on the responder, at most
\* one record of its own is registered; and in a pass that registers a new
\* record while another one was published, the unregister call for the old
\* record comes before the register call for the new one.
C17_AtMostOneRecordRegistered ==
    /\ \A k \in 0..Len(main_calls) :
         Cardinality(RegistryAfterCalls(SubSeq(main_calls, 1, k))) <= 1
    /\ (last_update # None /\ WasPublished)
       => \A k \in 1..Len(last_update.calls) :
            last_update.calls[k].op = "register_service"
            => \E m \in 1..(k - 1) :
                 /\ last_update.calls[m].op = "unregister_service"
                 /\ last_update.calls[m].info = last_update.current_info
                 /\ last_update.calls[m].raised = ""

\* A pass of the publisher has replaced a published record by one with
\* another name: unregister, then register, and the new record alone is
\* registered.
C17_Witness ==
    /\ AfterPublisherCycle
    /\ WasPublished
    /\ Len(last_update.calls) = 2
    /\ last_update.calls[1].op = "unregister_service"
    /\ last_update.calls[2].op = "register_service"
    /\ last_update.calls[2].raised = ""
    /\ last_update.calls[2].info.name # last_update.current_info.name
    /\ RegistryAfterCalls(main_calls) = {last_update.new_info}

\* The tracked record of an update_mdns call equals the record the call is
\* to build from its sample, in name, properties and address set.
TrackedEqualsFresh ==
    /\ last_update.current_info # None
    /\ last_update.current_info.name = InstanceNameOf(last_update)
    /\ last_update.current_info.properties
       = get_mdns_properties(last_update.dataset_hex, last_update.extaddr,
                             last_update.baid)
    /\ SeqToSet(last_update.current_info.addresses)
       = SeqToSet(PackAll(last_update.ip_addrs))

\* C18: a pass whose sample is available (nobody else owning the name, the
\* responder working) ends with update_mdns returned and a record tracked;
\* when the tracked record already equals the fresh one, update_mdns makes
\* no call on the responder and the tracked record stays what it was.
C18_NoFlapping ==
    (/\ AfterUpdateMdns
     /\ ~SampleUnavailable(last_update)
     /\ last_update.owned_elsewhere = {}
     /\ last_update.failing = "")
    => /\ last_update.raised = ""
       /\ current_mdns_info # None
       /\ TrackedEqualsFresh
          => /\ last_update.calls = <<>>
             /\ current_mdns_info = last_update.current_info

\* C19: a pass of the publisher's loop that builds a record differing from
\* the published one in name, in properties or in address set (nobody else
\* owning the name, the responder working) unregisters the old record,
\* registers the new one and leaves the new one published and tracked.
C19_AnyDifferenceIsRepublished ==
    (/\ AfterPublisherCycle
     /\ WasPublished
     /\ last_update.new_info # None
     /\ last_update.owned_elsewhere = {}
     /\ last_update.failing = ""
     /\ \/ last_update.new_info.name # last_update.current_info.name
        \/ last_update.new_info.properties # last_update.current_info.properties
        \/ SeqToSet(last_update.new_info.addresses)
           # SeqToSet(last_update.current_info.addresses))
    => /\ Len(last_update.calls) = 2
       /\ last_update.calls[1].op = "unregister_service"
       /\ last_update.calls[1].info = last_update.current_info
       /\ last_update.calls[2].op = "register_service"
       /\ last_update.calls[2].info = last_update.new_info
       /\ current_mdns_info = last_update.new_info
       /\ RegistryAfterCalls(main_calls) = {last_update.new_info}

(***************************************************************************)
(* Properties of shutdown and of configuration.                            *)
(***************************************************************************)
\* The calls the publisher made on the responder on its way out: those of
\* signal_handler and of the finally block.
IsShutdownCall(c) == c.by \in {"signal_handler", "finally"}
ShutdownOps == SelectSeq(main_calls, IsShutdownCall)

\* C21: when the publisher has ended on a termination signal received while
\* a record was published, its shutdown has unregistered that record exactly
\* once, has closed the responder exactly once, and has made no call on the
\* responder after the close.
C21_SignalWithdrawsAndClosesOnce ==
    (/\ pc = "exited"
     /\ exit_cause = "signal"
     /\ current_mdns_info # None)
    => /\ Cardinality({k \in 1..Len(ShutdownOps) :
                         /\ ShutdownOps[k].op = "unregister_service"
                         /\ ShutdownOps[k].info = current_mdns_info}) = 1
       /\ Cardinality({k \in 1..Len(ShutdownOps) : ShutdownOps[k].op = "close"}) = 1
       /\ \A k \in 1..Len(ShutdownOps) :
            ShutdownOps[k].op = "close" => k = Len(ShutdownOps)

\* C22: for every configured host name the normalized name ends in
\* '.local.', a name that already ends in '.local.' is left unchanged, and
\* normalizing the normalized name returns it unchanged.
C22_NormalizationIsIdempotent ==
    Returned("mDNS_SERVER_NAME")
    => /\ EndsWith(returned.value, DotLocalDot)
       /\ EndsWith(call.env_hostname, DotLocalDot)
          => returned.value = call.env_hostname
       /\ NormalizeHostName(returned.value) = returned.value

====
